------------------------------ MODULE FdTable ------------------------------
(***************************************************************************)
(* Descriptor flags: what the hooks of sys_hook.c (fcntl, socket, accept,  *)
(* close) and open_timer record of a descriptor in the table of inner_fd.c *)
(* and what the kernel knows of it.  Of an inner_fd only the flags count   *)
(* here; IoEvent has the rest of it, and relies on this module for a       *)
(* descriptor of the table being O_NONBLOCK.                               *)
(*                                                                         *)
(* A task is hooked unless it called co_disable_hook; code outside tasks   *)
(* never is.  A set of flags has the access mode, which F_SETFL does not   *)
(* change, and the bits a caller may set.                                  *)
(***************************************************************************)

EXTENDS Integers

CONSTANTS
    Fds,        \* descriptors
    Files,      \* the open file descriptions of the kernel
    O_RDWR,
    O_NONBLOCK,
    OtherBits,  \* any other flags F_SETFL changes
    NONE

ASSUME FdAssumption ==
    /\ Fds \subseteq Nat
    /\ NONE \notin Files
    /\ O_RDWR # O_NONBLOCK
    /\ {O_RDWR, O_NONBLOCK} \cap OtherBits = {}

Flags == SUBSET ({O_RDWR, O_NONBLOCK} \cup OtherBits)

InnerFd == [flags : Flags, user_flags : Flags]

ASSUME InnerFdAssumption == NONE \notin InnerFd

VARIABLES
    file,               \* the file of every descriptor, NONE if it is closed
    f_flags,            \* the flags of every file
    g_inner_fd_list     \* the inner_fd of every descriptor, or NONE

fd_vars == <<file, f_flags, g_inner_fd_list>>

FdTypeOK ==
    /\ file \in [Fds -> Files \cup {NONE}]
    /\ f_flags \in [Files -> Flags]
    /\ g_inner_fd_list \in [Fds -> InnerFd \cup {NONE}]

fd_init ==
    /\ file = [fd \in Fds |-> NONE]
    /\ f_flags = [f \in Files |-> {}]
    /\ g_inner_fd_list = [fd \in Fds |-> NONE]

-----------------------------------------------------------------------------
(* The kernel. *)

sys_open(fd, f, flags) ==
    /\ file[fd] = NONE
    /\ \A g \in Fds : file[g] # f
    /\ file' = [file EXCEPT ![fd] = f]
    /\ f_flags' = [f_flags EXCEPT ![f] = flags]

sys_setfl(fd, flags) ==
    f_flags' = [f_flags EXCEPT ![file[fd]] = (@ \cap {O_RDWR}) \cup (flags \ {O_RDWR})]

-----------------------------------------------------------------------------
new_inner_fd == [flags |-> {}, user_flags |-> {}]

get_inner_fd(fd) == g_inner_fd_list[fd]

Nonblock(fd) == get_inner_fd(fd) # NONE /\ O_NONBLOCK \in get_inner_fd(fd).flags

Store(fd, flags, user_flags) ==
    g_inner_fd_list' =
        [g_inner_fd_list EXCEPT ![fd] = [flags |-> flags, user_flags |-> user_flags]]

(* fcntl(fd, F_SETFL, flags).  Unhooked it is the kernel's; the client's rule *)
(* is that it leaves O_NONBLOCK to descriptors of the table.                  *)
setfl_unhooked(fd, flags) ==
    /\ file[fd] # NONE
    /\ O_NONBLOCK \in flags \/ \A g \in Fds : file[g] = file[fd] => ~Nonblock(g)
    /\ sys_setfl(fd, flags)
    /\ UNCHANGED <<file, g_inner_fd_list>>

(* Hooked, and without O_NONBLOCK.  The code dereferences the inner_fd: this  *)
(* is called on descriptors of the table.                                     *)
setfl_clear_obeyed(fd, flags) ==    \* mutant: O_NONBLOCK is really cleared
    /\ get_inner_fd(fd) # NONE
    /\ O_NONBLOCK \notin flags
    /\ Store(fd, get_inner_fd(fd).flags, flags)
    /\ IF file[fd] # NONE THEN sys_setfl(fd, flags) ELSE UNCHANGED f_flags
    /\ UNCHANGED file

setfl_clear(fd, flags) ==
    /\ get_inner_fd(fd) # NONE
    /\ O_NONBLOCK \notin flags
    /\ Store(fd, get_inner_fd(fd).flags, flags)
    /\ IF file[fd] # NONE THEN sys_setfl(fd, flags \cup {O_NONBLOCK}) ELSE UNCHANGED f_flags
    /\ UNCHANGED file

Entry(fd) == IF get_inner_fd(fd) = NONE THEN new_inner_fd ELSE get_inner_fd(fd)

(* The two early returns: the entry already has the flags. *)
Known(fd, flags) == flags \in {Entry(fd).user_flags, Entry(fd).flags}

(* Hooked, and with O_NONBLOCK.  The kernel refuses a closed descriptor. *)
setfl_set(fd, flags) ==
    /\ O_NONBLOCK \in flags
    /\ \/ Known(fd, flags) /\ Store(fd, Entry(fd).flags, flags) /\ UNCHANGED f_flags
       \/ ~Known(fd, flags) /\ file[fd] # NONE /\ Store(fd, flags, flags) /\ sys_setfl(fd, flags)
       \/ /\ ~Known(fd, flags) /\ file[fd] = NONE
          /\ Store(fd, Entry(fd).flags, Entry(fd).user_flags)
          /\ UNCHANGED f_flags
    /\ UNCHANGED file

(* fcntl(fd, F_DUPFD) returning ret. *)
dupfd(fd, ret, hooked) ==
    /\ file[fd] # NONE
    /\ file[ret] = NONE
    /\ file' = [file EXCEPT ![ret] = file[fd]]
    /\ IF ret > 0 /\ hooked /\ Nonblock(fd)
       THEN Store(ret, {}, {})
       ELSE UNCHANGED g_inner_fd_list
    /\ UNCHANGED f_flags

(* A descriptor from a call without a hook (open, pipe, ...), or with one but *)
(* of unhooked code.                                                          *)
open_unhooked(fd, f, flags) ==
    /\ sys_open(fd, f, flags)
    /\ UNCHANGED g_inner_fd_list

(* in_set_nonblock on a descriptor that the kernel just opened with flags:    *)
(* fcntl(F_SETFL, flags | O_NONBLOCK), after which user_flags are flags.      *)
in_set_nonblock(fd, f, flags) ==
    LET wanted == flags \cup {O_NONBLOCK}
    IN  IF Known(fd, wanted)
        THEN sys_open(fd, f, flags) /\ Store(fd, Entry(fd).flags, flags)
        ELSE sys_open(fd, f, wanted) /\ Store(fd, wanted, flags)

socket(fd, f, flags) == in_set_nonblock(fd, f, flags)

accept(sockfd, fd, f, flags) ==
    /\ file[sockfd] # NONE
    /\ Nonblock(sockfd)
    /\ in_set_nonblock(fd, f, flags)

open_timer(fd, f) ==
    /\ fd > 0
    /\ sys_open(fd, f, {O_RDWR, O_NONBLOCK})
    /\ Store(fd, Entry(fd).flags \cup {O_NONBLOCK}, Entry(fd).user_flags)

(* The client's rule: a descriptor of the table is closed by hooked code.     *)
(* Otherwise its entry stays, and is taken for that of the next descriptor    *)
(* with this number.                                                          *)
close(fd, hooked) ==
    /\ hooked \/ get_inner_fd(fd) = NONE
    /\ file' = [file EXCEPT ![fd] = NONE]
    /\ g_inner_fd_list' = [g_inner_fd_list EXCEPT ![fd] = NONE]
    /\ UNCHANGED f_flags

fd_next ==
    \/ \E fd \in Fds, flags \in Flags :
          setfl_unhooked(fd, flags) \/ setfl_clear(fd, flags) \/ setfl_set(fd, flags)
    \/ \E fd, ret \in Fds, hooked \in BOOLEAN : dupfd(fd, ret, hooked)
    \/ \E fd \in Fds, f \in Files :
          \/ \E flags \in {{O_RDWR}, {O_RDWR, O_NONBLOCK}} :
                \/ open_unhooked(fd, f, flags) \/ socket(fd, f, flags)
                \/ \E sockfd \in Fds : accept(sockfd, fd, f, flags)
          \/ open_timer(fd, f)
    \/ \E fd \in Fds, hooked \in BOOLEAN : close(fd, hooked)

FdSpec == fd_init /\ [][fd_next]_fd_vars

-----------------------------------------------------------------------------
(* A hooked read, write, accept or connect calls the kernel first and waits in *)
(* the event loop when that fails with EAGAIN; so wherever the table says      *)
(* O_NONBLOCK, the kernel does too.  Otherwise the call would stop the thread  *)
(* and all its tasks.                                                          *)
NeverBlocksThread ==
    \A fd \in Fds : Nonblock(fd) /\ file[fd] # NONE => O_NONBLOCK \in f_flags[file[fd]]

=============================================================================
