--------------------------- MODULE FdTableProofs ---------------------------
(***************************************************************************)
(* NeverBlocksThread, for any descriptors, files and flags.  It is not     *)
(* inductive: a descriptor that is opened again would meet the entry of    *)
(* the one before.  FdInv adds that an entry with O_NONBLOCK belongs to an *)
(* open descriptor.                                                        *)
(***************************************************************************)

EXTENDS FdTable, TLAPS

FdInv ==
    /\ FdTypeOK
    /\ \A fd \in Fds : Nonblock(fd) => file[fd] # NONE /\ O_NONBLOCK \in f_flags[file[fd]]

(* The entry a descriptor has, or would be given, is an inner_fd. *)
LEMMA EntryType ==
    ASSUME FdTypeOK, NEW fd \in Fds
    PROVE  /\ Entry(fd) \in InnerFd
           /\ O_NONBLOCK \in Entry(fd).flags => Nonblock(fd)
<1>1. new_inner_fd \in InnerFd
  BY DEF new_inner_fd, InnerFd, Flags
<1> QED
  BY <1>1 DEF Entry, FdTypeOK, get_inner_fd, Nonblock, new_inner_fd, InnerFd

(* Store writes the entry of one descriptor. *)
LEMMA StoreEffect ==
    ASSUME FdTypeOK, NEW fd \in Fds, NEW a \in Flags, NEW b \in Flags, Store(fd, a, b)
    PROVE  /\ g_inner_fd_list' \in [Fds -> InnerFd \cup {NONE}]
           /\ \A g \in Fds \ {fd} : Nonblock(g)' <=> Nonblock(g)
           /\ Nonblock(fd)' => O_NONBLOCK \in a
<1>1. [flags |-> a, user_flags |-> b] \in InnerFd
  BY DEF InnerFd
<1>2. g_inner_fd_list' \in [Fds -> InnerFd \cup {NONE}]
  BY <1>1 DEF Store, FdTypeOK
<1>3. g_inner_fd_list'[fd] = [flags |-> a, user_flags |-> b]
  BY DEF Store, FdTypeOK
<1>4. \A g \in Fds \ {fd} : g_inner_fd_list'[g] = g_inner_fd_list[g]
  BY DEF Store, FdTypeOK
<1> QED
  BY <1>2, <1>3, <1>4 DEF Nonblock, get_inner_fd

(* The kernel opens fd with a file of its own. *)
LEMMA OpenEffect ==
    ASSUME FdTypeOK, NEW fd \in Fds, NEW f \in Files, NEW flags \in Flags,
           sys_open(fd, f, flags)
    PROVE  /\ file' \in [Fds -> Files \cup {NONE}]
           /\ f_flags' \in [Files -> Flags]
           /\ file'[fd] = f /\ f_flags'[f] = flags
           /\ \A g \in Fds \ {fd} :
                 file'[g] = file[g] /\ (file[g] # NONE => f_flags'[file[g]] = f_flags[file[g]])
BY DEF sys_open, FdTypeOK

(* F_SETFL changes the file of fd to the bits of flags. *)
LEMMA SetflEffect ==
    ASSUME FdTypeOK, NEW fd \in Fds, NEW flags \in Flags, file[fd] # NONE,
           sys_setfl(fd, flags)
    PROVE  /\ f_flags' \in [Files -> Flags]
           /\ \A f \in Files : f # file[fd] => f_flags'[f] = f_flags[f]
           /\ O_NONBLOCK \in flags => O_NONBLOCK \in f_flags'[file[fd]]
<1>1. file[fd] \in Files
  BY DEF FdTypeOK
<1>2. (f_flags[file[fd]] \cap {O_RDWR}) \cup (flags \ {O_RDWR}) \in Flags
  BY <1>1 DEF FdTypeOK, Flags
<1> QED
  BY <1>1, <1>2, FdAssumption DEF sys_setfl, FdTypeOK

(* Every operation keeps FdInv. *)
LEMMA FdStep == FdInv /\ [fd_next]_fd_vars => FdInv'
<1> SUFFICES ASSUME FdInv, [fd_next]_fd_vars PROVE FdInv'
  OBVIOUS
<1>0. FdTypeOK
  BY DEF FdInv
<1>t. \A fl \in Flags : fl \cup {O_NONBLOCK} \in Flags
  BY DEF Flags
<1>1. ASSUME NEW fd \in Fds, NEW flags \in Flags, setfl_unhooked(fd, flags)
      PROVE  FdInv'
  <2>1. file[fd] # NONE /\ sys_setfl(fd, flags) /\ file' = file
        /\ g_inner_fd_list' = g_inner_fd_list
    BY <1>1 DEF setfl_unhooked
  <2>2. FdTypeOK'
    BY <1>0, <2>1, SetflEffect DEF FdTypeOK
  <2>3. ASSUME NEW g \in Fds, Nonblock(g)'
        PROVE  file[g] # NONE /\ O_NONBLOCK \in f_flags'[file[g]]
    <3>1. Nonblock(g) /\ file[g] # NONE /\ O_NONBLOCK \in f_flags[file[g]]
      BY <2>1, <2>3 DEF Nonblock, get_inner_fd, FdInv
    <3>2. file[g] = file[fd] => O_NONBLOCK \in flags
      BY <1>1, <3>1 DEF setfl_unhooked
    <3> QED
      BY <1>0, <2>1, <3>1, <3>2, SetflEffect DEF FdTypeOK
  <2> QED
    BY <2>1, <2>2, <2>3 DEF FdInv
<1>2. ASSUME NEW fd \in Fds, NEW flags \in Flags, setfl_clear(fd, flags)
      PROVE  FdInv'
  <2>1. get_inner_fd(fd).flags \in Flags
    BY <1>0, <1>2 DEF setfl_clear, FdTypeOK, get_inner_fd, InnerFd
  <2>2. file' = file /\ Store(fd, get_inner_fd(fd).flags, flags)
    BY <1>2 DEF setfl_clear
  <2>3. \A g \in Fds : Nonblock(g)' => Nonblock(g)
    BY <1>0, <1>2, <2>1, <2>2, StoreEffect DEF setfl_clear, Nonblock
  <2>4. CASE file[fd] = NONE
    <3>1. f_flags' = f_flags
      BY <1>2, <2>4 DEF setfl_clear
    <3> QED
      BY <1>0, <2>1, <2>2, <2>3, <3>1, StoreEffect DEF FdInv, FdTypeOK
  <2>5. CASE file[fd] # NONE
    <3>1. sys_setfl(fd, flags \cup {O_NONBLOCK})
      BY <1>2, <2>5 DEF setfl_clear
    <3>2. FdTypeOK'
      BY <1>0, <1>t, <2>1, <2>2, <2>5, <3>1, StoreEffect, SetflEffect DEF FdTypeOK
    <3>3. \A f \in Files : O_NONBLOCK \in f_flags[f] => O_NONBLOCK \in f_flags'[f]
      BY <1>0, <1>t, <2>5, <3>1, SetflEffect DEF FdTypeOK
    <3> QED
      BY <2>2, <2>3, <3>2, <3>3 DEF FdInv, FdTypeOK
  <2> QED
    BY <2>4, <2>5
<1>3. ASSUME NEW fd \in Fds, NEW flags \in Flags, setfl_set(fd, flags)
      PROVE  FdInv'
  <2>1. Entry(fd) \in InnerFd /\ (O_NONBLOCK \in Entry(fd).flags => Nonblock(fd))
    BY <1>0, EntryType
  <2>2. Entry(fd).flags \in Flags /\ Entry(fd).user_flags \in Flags
    BY <2>1 DEF InnerFd
  <2>3. file' = file /\ O_NONBLOCK \in flags
    BY <1>3 DEF setfl_set
  <2>4. ASSUME NEW b \in Flags, Store(fd, Entry(fd).flags, b), f_flags' = f_flags
        PROVE  FdInv'
    BY <1>0, <2>1, <2>2, <2>3, <2>4, StoreEffect DEF FdInv, FdTypeOK
  <2>5. ASSUME file[fd] # NONE, Store(fd, flags, flags), sys_setfl(fd, flags)
        PROVE  FdInv'
    <3>1. FdTypeOK'
      BY <1>0, <2>3, <2>5, StoreEffect, SetflEffect DEF FdTypeOK
    <3>2. \A f \in Files : O_NONBLOCK \in f_flags[f] => O_NONBLOCK \in f_flags'[f]
      BY <1>0, <2>3, <2>5, SetflEffect DEF FdTypeOK
    <3>3. O_NONBLOCK \in f_flags'[file[fd]]
      BY <1>0, <2>3, <2>5, SetflEffect
    <3>4. \A g \in Fds \ {fd} : Nonblock(g)' => Nonblock(g)
      BY <1>0, <2>5, StoreEffect
    <3> QED
      BY <2>3, <2>5, <3>1, <3>2, <3>3, <3>4 DEF FdInv, FdTypeOK
  <2> QED
    BY <1>3, <2>2, <2>4, <2>5 DEF setfl_set
<1>4. ASSUME NEW fd \in Fds, NEW ret \in Fds, NEW hooked \in BOOLEAN, dupfd(fd, ret, hooked)
      PROVE  FdInv'
  <2>1. {} \in Flags
    BY DEF Flags
  <2>2. g_inner_fd_list' \in [Fds -> InnerFd \cup {NONE}] /\ \A g \in Fds : Nonblock(g)' => Nonblock(g)
    <3>1. CASE Store(ret, {}, {})
      BY <1>0, <2>1, <3>1, StoreEffect
    <3>2. CASE g_inner_fd_list' = g_inner_fd_list
      BY <1>0, <3>2 DEF FdTypeOK, Nonblock, get_inner_fd
    <3> QED
      BY <1>4, <3>1, <3>2 DEF dupfd
  <2>3. file[ret] = NONE /\ file' = [file EXCEPT ![ret] = file[fd]] /\ f_flags' = f_flags
    BY <1>4 DEF dupfd
  <2> QED
    BY <2>2, <2>3 DEF FdInv, FdTypeOK
<1>5. ASSUME NEW fd \in Fds, NEW f \in Files, NEW flags \in Flags, sys_open(fd, f, flags),
             g_inner_fd_list' \in [Fds -> InnerFd \cup {NONE}],
             \A g \in Fds \ {fd} : Nonblock(g)' => Nonblock(g),
             Nonblock(fd)' => O_NONBLOCK \in flags
      PROVE  FdInv'
  <2>1. FdTypeOK'
    BY <1>0, <1>5, OpenEffect DEF FdTypeOK
  <2>2. f # NONE
    BY FdAssumption
  <2> QED
    BY <1>0, <1>5, <2>1, <2>2, OpenEffect DEF FdInv
<1>6. ASSUME NEW fd \in Fds, NEW f \in Files, NEW flags \in Flags, open_unhooked(fd, f, flags)
      PROVE  FdInv'
  <2>1. ~Nonblock(fd)
    BY <1>6 DEF open_unhooked, sys_open, FdInv
  <2>2. sys_open(fd, f, flags) /\ g_inner_fd_list' = g_inner_fd_list
    BY <1>6 DEF open_unhooked
  <2>3. \A g \in Fds : Nonblock(g)' <=> Nonblock(g)
    BY <2>2 DEF Nonblock, get_inner_fd
  <2>4. g_inner_fd_list' \in [Fds -> InnerFd \cup {NONE}]
    BY <1>0, <2>2 DEF FdTypeOK
  <2> QED
    BY <1>5, <2>1, <2>2, <2>3, <2>4
<1>7. ASSUME NEW fd \in Fds, NEW f \in Files, NEW flags \in Flags, in_set_nonblock(fd, f, flags)
      PROVE  FdInv'
  <2> DEFINE wanted == flags \cup {O_NONBLOCK}
  <2>1. wanted \in Flags /\ O_NONBLOCK \in wanted
    BY <1>t
  <2>2. Entry(fd) \in InnerFd /\ (O_NONBLOCK \in Entry(fd).flags => Nonblock(fd))
    BY <1>0, EntryType
  <2>3. ~Nonblock(fd)
    BY <1>7 DEF in_set_nonblock, sys_open, FdInv
  <2>4. CASE Known(fd, wanted)
    <3>1. sys_open(fd, f, flags) /\ Store(fd, Entry(fd).flags, flags)
      BY <1>7, <2>4 DEF in_set_nonblock
    <3>2. Entry(fd).flags \in Flags
      BY <2>2 DEF InnerFd
    <3> QED
      BY <1>0, <1>5, <2>2, <2>3, <3>1, <3>2, StoreEffect
  <2>5. CASE ~Known(fd, wanted)
    <3>1. sys_open(fd, f, wanted) /\ Store(fd, wanted, flags)
      BY <1>7, <2>5 DEF in_set_nonblock
    <3> QED
      BY <1>0, <1>5, <2>1, <3>1, StoreEffect
  <2> QED
    BY <2>4, <2>5
<1>8. ASSUME NEW fd \in Fds, NEW f \in Files, open_timer(fd, f)
      PROVE  FdInv'
  <2>1. Entry(fd) \in InnerFd /\ {O_RDWR, O_NONBLOCK} \in Flags
    BY <1>0, EntryType DEF Flags
  <2>2. Entry(fd).flags \cup {O_NONBLOCK} \in Flags /\ Entry(fd).user_flags \in Flags
    BY <1>t, <2>1 DEF InnerFd
  <2> QED
    BY <1>0, <1>5, <1>8, <2>1, <2>2, StoreEffect DEF open_timer
<1>9. ASSUME NEW fd \in Fds, NEW hooked \in BOOLEAN, close(fd, hooked)
      PROVE  FdInv'
  <2>1. FdTypeOK'
    BY <1>0, <1>9 DEF close, FdTypeOK
  <2>2. \A g \in Fds : Nonblock(g)' => g # fd /\ Nonblock(g)
    BY <1>0, <1>9 DEF close, Nonblock, get_inner_fd, FdTypeOK
  <2> QED
    BY <1>0, <1>9, <2>1, <2>2 DEF close, FdInv, FdTypeOK
<1>10. CASE UNCHANGED fd_vars
  BY <1>10 DEF fd_vars, FdInv, FdTypeOK, Nonblock, get_inner_fd
<1>11. {{O_RDWR}, {O_RDWR, O_NONBLOCK}} \subseteq Flags
  BY DEF Flags
<1> QED
  BY <1>1, <1>2, <1>3, <1>4, <1>6, <1>7, <1>8, <1>9, <1>10, <1>11
  DEF fd_next, socket, accept

(* No hooked call on a descriptor of the table ever stops its thread in the   *)
(* kernel: whatever was opened, duplicated, closed and told by fcntl before,  *)
(* a descriptor marked O_NONBLOCK in the table is so in the kernel.           *)
THEOREM NeverBlocks == FdSpec => []NeverBlocksThread
<1>1. fd_init => FdInv
  BY DEF fd_init, FdInv, FdTypeOK, Flags, Nonblock, get_inner_fd
<1>2. FdInv => NeverBlocksThread
  BY DEF FdInv, NeverBlocksThread
<1> QED
  BY <1>1, <1>2, FdStep, PTL DEF FdSpec

=============================================================================
