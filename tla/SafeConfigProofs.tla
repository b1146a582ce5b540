--------------------------- MODULE SafeConfigProofs ---------------------------
(* Theorems about SafeConfig for any number of readers, posters and edits.    *)
EXTENDS SafeConfig, TLAPS

\* What is left to read is one of three suffixes of the argument list.
LEMMA Unread ==
  /\ ToSet(<<>>) = {} /\ ToSet(<<"modules">>) = {"modules"} /\ ToSet(FileOrder) = Parts
  /\ Head(FileOrder) = "auths" /\ Tail(FileOrder) = <<"modules">>
  /\ Head(<<"modules">>) = "modules" /\ Tail(<<"modules">>) = <<>>
  /\ FileOrder # <<>> /\ <<"modules">> # <<>>
  /\ FileOrder \in Seq(Parts) /\ <<"modules">> \in Seq(Parts) /\ <<>> \in Seq(Parts)
  BY DEF ToSet, FileOrder, Parts

LEMMA NoConfigType == NoConfig \in Configs
  BY DEF NoConfig, Configs, Absent

\* Edits are numbers.
EditNats ==
  /\ \A q \in Parts : C[q].edit \in Nat /\ disk[q].edit \in Nat /\ conf[q].edit \in Nat
  /\ \A p \in Posters, q \in Parts : posted[p][q] \in Nat

\* The first clauses of Freshness, for steps of arithmetic.
Ordered ==
  /\ \A q \in Parts : C[q].edit <= disk[q].edit /\ disk[q].edit <= edits
  /\ \A p \in Posters, q \in Parts : posted[p][q] <= disk[q].edit

LEMMA EditTypes == (TypeOK => EditNats) /\ (TypeOK' => EditNats')
  BY DEF TypeOK, EditNats, Configs, Contents

\* Every variable keeps its type.
LEMMA TypeStep == IInv /\ [Next]_vars => TypeOK'
<1> SUFFICES ASSUME TypeOK, Freshness, [Next]_vars PROVE TypeOK'
  BY DEF IInv
<1> USE SafeConfigAssumption DEF TypeOK, vars, operator, loading, reading, posting, others, LoaderStates, Holding
<1>1. CASE Edit
  BY <1>1 DEF Edit, Contents
<1>2. CASE ReadFile
  <2>1. Head(toRead) \in Parts /\ Tail(toRead) \in Seq(Parts)
    BY <1>2, Unread DEF ReadFile, Freshness, Parts
  <2>2. disk[Head(toRead)] \in [edit: Nat, kind: {"good", "absent"}]
    BY <1>2, <2>1 DEF ReadFile, Contents, Kinds
  <2>3. conf' \in Configs
    BY <1>2, <2>1, <2>2 DEF ReadFile, Configs
  <2> QED
    BY <1>2, <2>1, <2>3 DEF ReadFile
<1>3. CASE LoadFails
  BY <1>3 DEF LoadFails, AfterLoad
<1>4. CASE Lock
  BY <1>4 DEF Lock
<1>5. CASE Install
  BY <1>5 DEF Install, ReadersGone
<1>6. CASE Unlock
  BY <1>6 DEF Unlock, AfterLoad
<1>7. CASE Serve
  BY <1>7 DEF Serve, BootOK, Lacks
<1>8. CASE BootExit
  BY <1>8 DEF BootExit, Exit
<1>9. CASE Sighup
  BY <1>9 DEF Sighup
<1>10. CASE EarlySighup
  BY <1>10 DEF EarlySighup, Exit
<1>11. CASE TakeHup
  <2>1. hup' \in 0..1 /\ cause' \in {"boot", "hup"} \cup Posters /\ attempted' \in Nat
    BY <1>11 DEF TakeHup, StartLoad
  <2>2. conf' \in Configs /\ toRead' \in Seq(Parts) /\ loader' \in LoaderStates /\ failed' \in BOOLEAN
    BY <1>11, NoConfigType, Unread DEF TakeHup, StartLoad
  <2> QED
    BY <1>11, <2>1, <2>2 DEF TakeHup
<1>12. ASSUME NEW p \in Posters, Post(p) PROVE TypeOK'
  <2>1. [q \in Parts |-> disk[q].edit] \in [Parts -> Nat]
    BY DEF Contents
  <2> QED
    BY <1>12, <2>1 DEF Post
<1>13. ASSUME NEW p \in Posters, TakePost(p) PROVE TypeOK'
  BY <1>13, NoConfigType, Unread DEF TakePost, StartLoad
<1>14. ASSUME NEW p \in Posters, Reply(p) PROVE TypeOK'
  BY <1>14 DEF Reply
<1>15. ASSUME NEW p \in Posters, Answered(p) PROVE TypeOK'
  BY <1>15 DEF Answered
<1>16. ASSUME NEW r \in Readers, Request(r) PROVE TypeOK'
  BY <1>16 DEF Request, Step
<1>17. ASSUME NEW r \in Readers, RLock(r) PROVE TypeOK'
  BY <1>17 DEF RLock, Step
<1>18. ASSUME NEW r \in Readers, LookupAuth(r) PROVE TypeOK'
  BY <1>18 DEF LookupAuth, Step, See
<1>19. ASSUME NEW r \in Readers, LookupModule(r) PROVE TypeOK'
  BY <1>19 DEF LookupModule, MoreModules, See
<1>20. ASSUME NEW r \in Readers, EndLookup(r) PROVE TypeOK'
  BY <1>20 DEF EndLookup, MoreModules, RUnlock, Step
<1>21. ASSUME NEW r \in Readers, Reject(r) PROVE TypeOK'
  BY <1>21 DEF Reject, LookingUp, MoreModules, Forget, RUnlock, Step
<1>22. ASSUME NEW r \in Readers, Marshal(r) PROVE TypeOK'
  BY <1>22 DEF Marshal, RUnlock, Step, See
<1>23. ASSUME NEW r \in Readers, Finish(r) PROVE TypeOK'
  BY <1>23 DEF Finish, Forget, Step
<1>24. CASE Exited
  BY <1>24 DEF Exited
<1>25. CASE UNCHANGED vars
  BY <1>25
<1>. QED
  BY <1>1, <1>2, <1>3, <1>4, <1>5, <1>6, <1>7, <1>8, <1>9, <1>10, <1>11,
     <1>12, <1>13, <1>14, <1>15, <1>16, <1>17, <1>18, <1>19, <1>20, <1>21,
     <1>22, <1>23, <1>24, <1>25
  DEF Next, LoaderStep, ReaderStep

\* The lock is where the handlers and the loader say it is.
LEMMA LockingStep == IInv /\ [Next]_vars => Locking'
<1> SUFFICES ASSUME TypeOK, Locking, [Next]_vars PROVE Locking'
  BY DEF IInv
<1> USE SafeConfigAssumption DEF TypeOK, Locking, vars, operator, loading, reading, posting, others, Holding
<1>1. CASE Edit
  BY <1>1 DEF Edit
<1>2. CASE ReadFile
  BY <1>2 DEF ReadFile
<1>3. CASE LoadFails
  BY <1>3 DEF LoadFails, AfterLoad
<1>4. CASE Lock
  BY <1>4 DEF Lock
<1>5. CASE Install
  BY <1>5 DEF Install, ReadersGone
<1>6. CASE Unlock
  BY <1>6 DEF Unlock, AfterLoad
<1>7. CASE Serve
  BY <1>7 DEF Serve, BootOK, Lacks
<1>8. CASE BootExit
  BY <1>8 DEF BootExit, Exit
<1>9. CASE Sighup
  BY <1>9 DEF Sighup
<1>10. CASE EarlySighup
  BY <1>10 DEF EarlySighup, Exit
<1>11. CASE TakeHup
  BY <1>11 DEF TakeHup, StartLoad
<1>12. ASSUME NEW p \in Posters, Post(p) PROVE Locking'
  BY <1>12 DEF Post
<1>13. ASSUME NEW p \in Posters, TakePost(p) PROVE Locking'
  BY <1>13 DEF TakePost, StartLoad
<1>14. ASSUME NEW p \in Posters, Reply(p) PROVE Locking'
  BY <1>14 DEF Reply
<1>15. ASSUME NEW p \in Posters, Answered(p) PROVE Locking'
  BY <1>15 DEF Answered
<1>16. ASSUME NEW r \in Readers, Request(r) PROVE Locking'
  BY <1>16 DEF Request, Step
<1>17. ASSUME NEW r \in Readers, RLock(r) PROVE Locking'
  BY <1>17 DEF RLock, Step
<1>18. ASSUME NEW r \in Readers, LookupAuth(r) PROVE Locking'
  BY <1>18 DEF LookupAuth, Step, See
<1>19. ASSUME NEW r \in Readers, LookupModule(r) PROVE Locking'
  BY <1>19 DEF LookupModule, MoreModules, See
<1>20. ASSUME NEW r \in Readers, EndLookup(r) PROVE Locking'
  BY <1>20 DEF EndLookup, MoreModules, RUnlock, Step
<1>21. ASSUME NEW r \in Readers, Reject(r) PROVE Locking'
  BY <1>21 DEF Reject, LookingUp, MoreModules, Forget, RUnlock, Step
<1>22. ASSUME NEW r \in Readers, Marshal(r) PROVE Locking'
  BY <1>22 DEF Marshal, RUnlock, Step, See
<1>23. ASSUME NEW r \in Readers, Finish(r) PROVE Locking'
  BY <1>23 DEF Finish, Forget, Step
<1>24. CASE Exited
  BY <1>24 DEF Exited
<1>25. CASE UNCHANGED vars
  BY <1>25
<1>. QED
  BY <1>1, <1>2, <1>3, <1>4, <1>5, <1>6, <1>7, <1>8, <1>9, <1>10, <1>11,
     <1>12, <1>13, <1>14, <1>15, <1>16, <1>17, <1>18, <1>19, <1>20, <1>21,
     <1>22, <1>23, <1>24, <1>25
  DEF Next, LoaderStep, ReaderStep

\* The configuration is replaced only when no reader is looking.
LEMMA ViewingStep == IInv /\ [Next]_vars => Viewing'
<1> SUFFICES ASSUME TypeOK, Locking, Viewing, [Next]_vars PROVE Viewing'
  BY DEF IInv
<1> USE SafeConfigAssumption DEF TypeOK, Locking, Viewing, SnapshotConsistent, vars, operator, loading, reading, posting, others, Holding
<1>1. CASE Edit
  BY <1>1 DEF Edit
<1>2. CASE ReadFile
  BY <1>2 DEF ReadFile
<1>3. CASE LoadFails
  BY <1>3 DEF LoadFails, AfterLoad
<1>4. CASE Lock
  BY <1>4 DEF Lock
<1>5. CASE Install
  BY <1>5 DEF Install, ReadersGone
<1>6. CASE Unlock
  BY <1>6 DEF Unlock, AfterLoad
<1>7. CASE Serve
  BY <1>7 DEF Serve, BootOK, Lacks
<1>8. CASE BootExit
  BY <1>8 DEF BootExit, Exit
<1>9. CASE Sighup
  BY <1>9 DEF Sighup
<1>10. CASE EarlySighup
  BY <1>10 DEF EarlySighup, Exit
<1>11. CASE TakeHup
  BY <1>11 DEF TakeHup, StartLoad
<1>12. ASSUME NEW p \in Posters, Post(p) PROVE Viewing'
  BY <1>12 DEF Post
<1>13. ASSUME NEW p \in Posters, TakePost(p) PROVE Viewing'
  BY <1>13 DEF TakePost, StartLoad
<1>14. ASSUME NEW p \in Posters, Reply(p) PROVE Viewing'
  BY <1>14 DEF Reply
<1>15. ASSUME NEW p \in Posters, Answered(p) PROVE Viewing'
  BY <1>15 DEF Answered
<1>16. ASSUME NEW r \in Readers, Request(r) PROVE Viewing'
  BY <1>16 DEF Request, Step
<1>17. ASSUME NEW r \in Readers, RLock(r) PROVE Viewing'
  BY <1>17 DEF RLock, Step
<1>18. ASSUME NEW r \in Readers, LookupAuth(r) PROVE Viewing'
  BY <1>18 DEF LookupAuth, Step, See
<1>19. ASSUME NEW r \in Readers, LookupModule(r) PROVE Viewing'
  BY <1>19 DEF LookupModule, MoreModules, See
<1>20. ASSUME NEW r \in Readers, EndLookup(r) PROVE Viewing'
  BY <1>20 DEF EndLookup, MoreModules, RUnlock, Step
<1>21. ASSUME NEW r \in Readers, Reject(r) PROVE Viewing'
  BY <1>21 DEF Reject, LookingUp, MoreModules, Forget, RUnlock, Step
<1>22. ASSUME NEW r \in Readers, Marshal(r) PROVE Viewing'
  BY <1>22 DEF Marshal, RUnlock, Step, See
<1>23. ASSUME NEW r \in Readers, Finish(r) PROVE Viewing'
  BY <1>23 DEF Finish, Forget, Step
<1>24. CASE Exited
  BY <1>24 DEF Exited
<1>25. CASE UNCHANGED vars
  BY <1>25
<1>. QED
  BY <1>1, <1>2, <1>3, <1>4, <1>5, <1>6, <1>7, <1>8, <1>9, <1>10, <1>11,
     <1>12, <1>13, <1>14, <1>15, <1>16, <1>17, <1>18, <1>19, <1>20, <1>21,
     <1>22, <1>23, <1>24, <1>25
  DEF Next, LoaderStep, ReaderStep

\* A load reads what is newer than what is served and than every POST it answers.
LEMMA FreshnessStep == IInv /\ TypeOK' /\ [Next]_vars => (Freshness /\ ReloadIsFresh)'
<1> SUFFICES ASSUME TypeOK, TypeOK', Locking, Freshness, ReloadIsFresh, [Next]_vars PROVE (Freshness /\ ReloadIsFresh)'
  BY DEF IInv
<1>e. EditNats /\ EditNats'
  BY EditTypes
<1>o. Ordered
  BY DEF Ordered, Freshness
<1> USE SafeConfigAssumption DEF TypeOK, Freshness, ReloadIsFresh, vars, operator, loading, reading, posting, others
<1>1. CASE Edit
  <2>1. PICK q \in Parts, k \in Kinds : disk' = [disk EXCEPT ![q] = [edit |-> edits', kind |-> k]]
    BY <1>1 DEF Edit
  <2>2. edits' = edits + 1 /\ edits \in Nat
    BY <1>1 DEF Edit
  <2>3. \A x \in Parts : disk'[x].edit >= disk[x].edit /\ disk'[x].edit <= edits'
    <3>1. \A x \in Parts : disk'[x].edit = (IF x = q THEN edits' ELSE disk[x].edit)
      BY <2>1
    <3> QED
      BY ONLY <3>1, <2>2, <1>e, <1>o DEF EditNats, Ordered
  <2>4. \A x \in Parts : C[x].edit <= disk'[x].edit
    BY ONLY <2>3, <1>e, <1>o DEF EditNats, Ordered
  <2>5. \A p \in Posters, x \in Parts : posted[p][x] <= disk'[x].edit
    BY ONLY <2>3, <1>e, <1>o DEF EditNats, Ordered
  <2>6. \A x \in Parts \ ToSet(toRead) : conf[x].edit <= disk[x].edit => conf[x].edit <= disk'[x].edit
    BY ONLY <2>3, <1>e, <1>o DEF EditNats, Ordered
  <2>7. UNCHANGED <<process, C, loader, cause, toRead, conf, failed, post, posted>>
    BY <1>1 DEF Edit
  <2> QED
    BY <2>3, <2>4, <2>5, <2>6, <2>7
<1>2. CASE ReadFile
  <2>1. /\ UNCHANGED <<disk, edits, process, C, loader, cause, failed, post, posted>>
        /\ loader = "read" /\ ~failed /\ Head(toRead) \in Parts
        /\ toRead' \in {FileOrder, <<"modules">>, <<>>}
        /\ ToSet(toRead') = ToSet(toRead) \ {Head(toRead)}
    BY <1>2, Unread, ZenonT(30) DEF ReadFile, Parts
  <2>2. conf' = [conf EXCEPT ![Head(toRead)] = disk[Head(toRead)]]
    BY <1>2 DEF ReadFile
  <2>3. \A q \in Parts \ ToSet(toRead') :
          conf'[q] = (IF q = Head(toRead) THEN disk[q] ELSE conf[q])
    BY <2>1, <2>2 DEF Configs
  <2>a. \A q \in Parts \ ToSet(toRead) :
          /\ conf[q].edit >= C[q].edit /\ conf[q].edit <= disk[q].edit
          /\ \A p \in Posters : post[p] = "waiting" => conf[q].edit >= posted[p][q]
    BY <2>1
  <2>b. \A q \in Parts \ ToSet(toRead') : q # Head(toRead) => q \in Parts \ ToSet(toRead)
    BY <2>1
  <2>4. \A q \in Parts \ ToSet(toRead') :
          conf'[q].edit >= C[q].edit /\ conf'[q].edit <= disk[q].edit
    BY ONLY <2>a, <2>b, <2>3, <1>e, <1>o DEF EditNats, Ordered
  <2>5. \A p \in Posters : post[p] = "waiting" =>
          \A q \in Parts \ ToSet(toRead') : conf'[q].edit >= posted[p][q]
    BY ONLY <2>a, <2>b, <2>3, <1>e, <1>o DEF EditNats, Ordered
  <2> QED
    BY <2>1, <2>4, <2>5
<1>3. CASE LoadFails
  BY <1>3 DEF LoadFails, AfterLoad
<1>4. CASE Lock
  BY <1>4 DEF Lock
<1>5. CASE Install
  <2>1. /\ UNCHANGED <<disk, edits, process, cause, toRead, conf, failed, post, posted>>
        /\ loader = "lock" /\ loader' = "unlock" /\ C' = conf /\ toRead = <<>>
    BY <1>5 DEF Install
  <2>2. \A q \in Parts : C'[q].edit >= C[q].edit /\ C'[q].edit <= disk[q].edit
    BY <2>1, Unread
  <2>a. \A p \in Posters, q \in Parts : post[p] = "ok" => C[q].edit >= posted[p][q]
    OBVIOUS
  <2>3. \A p \in Posters, q \in Parts : post[p] = "ok" => C'[q].edit >= posted[p][q]
    BY ONLY <2>a, <2>2, <1>e, <1>o DEF EditNats, Ordered
  <2> QED
    BY <2>1, <2>2, <2>3
<1>6. CASE Unlock
  BY <1>6 DEF Unlock, AfterLoad
<1>7. CASE Serve
  BY <1>7 DEF Serve, BootOK, Lacks
<1>8. CASE BootExit
  BY <1>8 DEF BootExit, Exit
<1>9. CASE Sighup
  BY <1>9 DEF Sighup
<1>10. CASE EarlySighup
  <2>1. UNCHANGED <<disk, edits, C, cause, toRead, conf, failed, post, posted>>
        /\ process = "starting" /\ process' = "exited"
    BY <1>10 DEF EarlySighup, Exit
  <2>2. loader' = "stopped" /\ \A p \in Posters : post[p] # "waiting"
    BY <1>10 DEF EarlySighup, Exit
  <2> QED
    BY <2>1, <2>2
<1>11. CASE TakeHup
  <2>1. /\ UNCHANGED <<disk, edits, process, C, posted>>
        /\ loader = "select" /\ loader' = "read" /\ toRead' = FileOrder /\ ~failed'
    BY <1>11 DEF TakeHup, StartLoad
  <2>2. \A s \in Posters : post[s] # "waiting"
    BY <2>1
  <2>3. Parts \ ToSet(toRead') = {}
    BY <2>1, Unread
  <2>4. \A s \in Posters : post'[s] = "waiting" => cause' = s
    BY <1>11, <2>2 DEF TakeHup, StartLoad
  <2>5. \A s \in Posters : post'[s] = "ok" => post[s] = "ok"
    BY <1>11 DEF TakeHup
  <2>6. process # "serving" => \A s \in Posters : post'[s] = "idle"
    BY <1>11 DEF TakeHup
  <2> QED
    BY <2>1, <2>3, <2>4, <2>5, <2>6
<1>12. ASSUME NEW p \in Posters, Post(p) PROVE (Freshness /\ ReloadIsFresh)'
  <2>1. /\ UNCHANGED <<disk, edits, process, C, loader, cause, toRead, conf, failed>> /\ process = "serving"
        /\ \A s \in Posters \ {p} : post'[s] = post[s] /\ posted'[s] = posted[s]
        /\ post'[p] = "offer" /\ posted'[p] = [q \in Parts |-> disk[q].edit]
    BY <1>12 DEF Post
  <2>2. \A s \in Posters, q \in Parts : posted'[s][q] <= disk[q].edit
    BY ONLY <2>1, <1>e, <1>o DEF EditNats, Ordered
  <2> QED
    BY <2>1, <2>2
<1>13. ASSUME NEW p \in Posters, TakePost(p) PROVE (Freshness /\ ReloadIsFresh)'
  <2>1. /\ UNCHANGED <<disk, edits, process, C, posted>>
        /\ loader = "select" /\ loader' = "read" /\ toRead' = FileOrder /\ ~failed'
    BY <1>13 DEF TakePost, StartLoad
  <2>2. \A s \in Posters : post[s] # "waiting"
    BY <2>1
  <2>3. Parts \ ToSet(toRead') = {}
    BY <2>1, Unread
  <2>4. \A s \in Posters : post'[s] = "waiting" => cause' = s
    BY <1>13, <2>2 DEF TakePost, StartLoad
  <2>5. \A s \in Posters : post'[s] = "ok" => post[s] = "ok"
    BY <1>13 DEF TakePost
  <2>6. process # "serving" => \A s \in Posters : post'[s] = "idle"
    BY <1>13 DEF TakePost
  <2> QED
    BY <2>1, <2>3, <2>4, <2>5, <2>6
<1>14. ASSUME NEW p \in Posters, Reply(p) PROVE (Freshness /\ ReloadIsFresh)'
  <2>1. /\ UNCHANGED <<disk, edits, process, C, cause, toRead, conf, failed, posted>>
        /\ loader = "reply" /\ loader' = "select" /\ cause = p /\ post[p] = "waiting"
        /\ post' = [post EXCEPT ![p] = IF failed THEN "failed" ELSE "ok"]
    BY <1>14 DEF Reply
  <2>2. \A s \in Posters : post'[s] # "waiting"
    BY <2>1
  <2>3. \A q \in Parts : ~failed => C[q].edit >= posted[p][q]
    BY <2>1, Unread
  <2> QED
    BY <2>1, <2>2, <2>3
<1>15. ASSUME NEW p \in Posters, Answered(p) PROVE (Freshness /\ ReloadIsFresh)'
  BY <1>15 DEF Answered
<1>16. ASSUME NEW r \in Readers, Request(r) PROVE (Freshness /\ ReloadIsFresh)'
  BY <1>16 DEF Request, Step
<1>17. ASSUME NEW r \in Readers, RLock(r) PROVE (Freshness /\ ReloadIsFresh)'
  BY <1>17 DEF RLock, Step
<1>18. ASSUME NEW r \in Readers, LookupAuth(r) PROVE (Freshness /\ ReloadIsFresh)'
  BY <1>18 DEF LookupAuth, Step, See
<1>19. ASSUME NEW r \in Readers, LookupModule(r) PROVE (Freshness /\ ReloadIsFresh)'
  BY <1>19 DEF LookupModule, MoreModules, See
<1>20. ASSUME NEW r \in Readers, EndLookup(r) PROVE (Freshness /\ ReloadIsFresh)'
  BY <1>20 DEF EndLookup, MoreModules, RUnlock, Step
<1>21. ASSUME NEW r \in Readers, Reject(r) PROVE (Freshness /\ ReloadIsFresh)'
  BY <1>21 DEF Reject, LookingUp, MoreModules, Forget, RUnlock, Step
<1>22. ASSUME NEW r \in Readers, Marshal(r) PROVE (Freshness /\ ReloadIsFresh)'
  BY <1>22 DEF Marshal, RUnlock, Step, See
<1>23. ASSUME NEW r \in Readers, Finish(r) PROVE (Freshness /\ ReloadIsFresh)'
  BY <1>23 DEF Finish, Forget, Step
<1>24. CASE Exited
  BY <1>24 DEF Exited
<1>25. CASE UNCHANGED vars
  BY <1>25
<1>. QED
  BY <1>1, <1>2, <1>3, <1>4, <1>5, <1>6, <1>7, <1>8, <1>9, <1>10, <1>11,
     <1>12, <1>13, <1>14, <1>15, <1>16, <1>17, <1>18, <1>19, <1>20, <1>21,
     <1>22, <1>23, <1>24, <1>25
  DEF Next, LoaderStep, ReaderStep

-----------------------------------------------------------------------------
(* The theorems                                                               *)

\* The invariant holds before main has read a file.
LEMMA InitInv == Init => IInv
<1> SUFFICES ASSUME Init PROVE IInv
  OBVIOUS
<1>1. TypeOK
  <2>1. disk \in [Parts -> Contents]
    BY DEF Init, Contents
  <2>2. failed \in BOOLEAN
    BY DEF Init
  <2>3. C \in Configs /\ conf \in Configs /\ toRead \in Seq(Parts)
    BY NoConfigType, Unread DEF Init
  <2> QED
    BY <2>1, <2>2, <2>3, SafeConfigAssumption DEF Init, TypeOK, LoaderStates
<1>2. Locking
  BY DEF Init, Locking, Holding
<1>3. Viewing
  BY DEF Init, Viewing, SnapshotConsistent
<1>4. Freshness
  <2>1. \A q \in Parts : C[q].edit = 0 /\ disk[q].edit = 0
    BY DEF Init, NoConfig, Absent
  <2>2. \A p \in Posters, q \in Parts : posted[p][q] = 0
    BY DEF Init
  <2>3. Parts \ ToSet(toRead) = {}
    BY Unread DEF Init
  <2> QED
    BY <2>1, <2>2, <2>3 DEF Init, Freshness
<1>5. ReloadIsFresh
  BY DEF Init, ReloadIsFresh
<1> QED
  BY <1>1, <1>2, <1>3, <1>4, <1>5 DEF IInv

\* Every step of every goroutine, and of the operator, preserves it.
LEMMA StepInv == IInv /\ [Next]_vars => IInv'
  BY TypeStep, LockingStep, ViewingStep, FreshnessStep DEF IInv

\* The inductive invariant: the place of every goroutine tells who holds sc.mu,
\* and what is loaded is never older than what is served.
THEOREM Invariant == Spec => []IInv
  BY InitInv, StepInv, PTL DEF Spec

\* Types of the configuration, the lock and the handlers.
THEOREM TypeCorrect == Spec => []TypeOK
<1>1. IInv => TypeOK
  BY DEF IInv
<1> QED
  BY <1>1, Invariant, PTL

\* The read lock of the handlers (main.go:159-178): no request mixes two
\* configurations, with any number of requests and reloads under way.
THEOREM Snapshot == Spec => []SnapshotConsistent
<1>1. IInv => SnapshotConsistent
  BY DEF IInv, Viewing
<1> QED
  BY <1>1, Invariant, PTL

\* The reload goroutine and its reply channel (main.go:265-284): a POST that is
\* answered OK is served what it asked for, or something newer.
THEOREM Fresh == Spec => []ReloadIsFresh
<1>1. IInv => ReloadIsFresh
  BY DEF IInv
<1> QED
  BY <1>1, Invariant, PTL

-----------------------------------------------------------------------------
(* SafeConfig implements ConfigRegister                                       *)

\* Looking up under the lock reads the register, at the first lookup only.
LEMMA LookupReads ==
  ASSUME NEW r \in Readers, TypeOK, Viewing, r \in rlocked, See(r), UNCHANGED <<C, loader, failed>>
  PROVE  Register!Read(r) \/ UNCHANGED <<C, Load, view>>
<1>1. view[r] = {} \/ view[r] = {C}
  BY DEF Viewing
<1>2. view' = [view EXCEPT ![r] = {C}]
  BY <1>1 DEF See
<1>3. UNCHANGED Load
  BY DEF Load
<1>4. CASE view[r] = {}
  BY <1>2, <1>3, <1>4 DEF Register!Read
<1>5. CASE view[r] = {C}
  BY <1>2, <1>3, <1>5 DEF TypeOK
<1> QED
  BY <1>1, <1>4, <1>5

\* What is installed is no older, file by file, than what it replaces.
LEMMA InstallSucceeds == IInv /\ Install => Register!Succeed
<1> SUFFICES ASSUME IInv, Install PROVE Register!Succeed
  OBVIOUS
<1>1. Load = "loading" /\ Load' = "loaded"
  BY DEF Install, Load, IInv, Freshness
<1>2. C' \in Configs /\ DOMAIN C' = Parts
  BY DEF Install, IInv, TypeOK, Configs
<1>3. \A q \in Parts : C'[q].edit >= C[q].edit
  <2>1. toRead = <<>> /\ C' = conf /\ loader = "lock"
    BY DEF Install, IInv, Freshness
  <2>2. Parts \ ToSet(toRead) = Parts
    BY <2>1, Unread
  <2> QED
    BY <2>1, <2>2 DEF IInv, Freshness
<1>4. UNCHANGED view
  BY DEF Install, reading
<1> QED
  BY <1>1, <1>2, <1>3, <1>4 DEF Register!Succeed, Register!NoOlder

\* Every step of the exporter is one step of the register, or none.
LEMMA RegisterStep == IInv /\ [Next]_vars => [Register!Next]_(Register!vars)
<1> SUFFICES ASSUME IInv, [Next]_vars
             PROVE  Register!Next \/ UNCHANGED <<C, Load, view>>
  BY DEF Register!vars
<1> USE DEF operator, loading, reading, posting, others
<1>1. CASE Install
  BY <1>1, InstallSucceeds DEF Register!Next
<1>2. CASE LoadFails
  <2>1. Load = "loading" /\ Load' = "failed"
    BY <1>2 DEF LoadFails, AfterLoad, Load
  <2> QED
    BY <1>2, <2>1 DEF LoadFails, Register!Next, Register!Fail
<1>3. CASE Edit \/ Sighup \/ ReadFile \/ Exited \/ UNCHANGED vars
  BY <1>3 DEF Edit, Sighup, ReadFile, Exited, vars, Load
<1>4. CASE Lock \/ Unlock \/ Serve
  BY <1>4 DEF Lock, Unlock, Serve, AfterLoad, Load, IInv, Freshness
<1>5. CASE EarlySighup \/ BootExit
  BY <1>5 DEF EarlySighup, BootExit, Exit, Load, Register!Next, Register!Stop
<1>6. CASE TakeHup
  BY <1>6 DEF TakeHup, StartLoad, Load, Register!Next, Register!Begin
<1>7. ASSUME NEW p \in Posters, TakePost(p)
      PROVE  Register!Next
  BY <1>7 DEF TakePost, StartLoad, Load, Register!Next, Register!Begin
<1>8. ASSUME NEW p \in Posters, Post(p) \/ Reply(p) \/ Answered(p)
      PROVE  UNCHANGED <<C, Load, view>>
  BY <1>8 DEF Post, Reply, Answered, Load
<1>9. ASSUME NEW r \in Readers, Request(r) \/ RLock(r) \/ EndLookup(r)
      PROVE  UNCHANGED <<C, Load, view>>
  BY <1>9 DEF Request, RLock, EndLookup, Load
<1>10. ASSUME NEW r \in Readers, LookupAuth(r) \/ LookupModule(r) \/ Marshal(r)
       PROVE  Register!Next \/ UNCHANGED <<C, Load, view>>
  <2>1. r \in rlocked
    BY <1>10 DEF IInv, Locking, Holding, LookupAuth, LookupModule, Marshal
  <2>2. See(r) /\ UNCHANGED <<C, loader, failed>>
    BY <1>10 DEF LookupAuth, LookupModule, Marshal
  <2> QED
    BY <2>1, <2>2, LookupReads DEF IInv, Register!Next
<1>11. ASSUME NEW r \in Readers, Reject(r) \/ Finish(r)
       PROVE  Register!Next
  BY <1>11 DEF Reject, Finish, Forget, Register!Next, Register!Forget, Load
<1> QED
  BY <1>1, <1>2, <1>3, <1>4, <1>5, <1>6, <1>7, <1>8, <1>9, <1>10, <1>11
  DEF Next, LoaderStep, ReaderStep

\* The lock makes the lookups of one request atomic: the exporter implements a
\* register that each request reads once and that only successful loads write,
\* never with an older file; a load that fails changes nothing (main.go:206-219).
THEOREM Implements == Spec => ImplementsRegister
<1>1. Init => Register!Init
  BY NoConfigType DEF Init, Register!Init, Load
<1> QED
  BY <1>1, RegisterStep, Invariant, PTL DEF Spec, ImplementsRegister, Register!Spec
=============================================================================
