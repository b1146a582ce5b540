---------------------------- MODULE ConfigRegister ----------------------------
(* What SafeConfig promises to its readers and to the operator: one register   *)
(* of configurations.  A reader sees one of them, all of it, as if it had read *)
(* the register in a single step.  Only a load that has not failed writes it,  *)
(* once, and never puts back an older file.                                    *)
EXTENDS Integers

CONSTANTS
  Readers,
  Configs \* functions from the files to what they held, with the number of the edit

VARIABLES
  current, \* the configuration served
  load,    \* how the last load goes: "loading", "loaded" or "failed"; or "stopped"
  view     \* the configuration each reader works with, if any
vars == <<current, load, view>>

Init ==
  /\ current \in Configs
  /\ load = "loading"
  /\ view = [r \in Readers |-> {}]

Begin ==
  /\ load \in {"loaded", "failed"}
  /\ load' = "loading"
  /\ UNCHANGED <<current, view>>

NoOlder(c, d) == \A p \in DOMAIN c : c[p].edit >= d[p].edit
Succeed ==
  /\ load = "loading"
  /\ load' = "loaded"
  /\ current' \in Configs
  /\ NoOlder(current', current)
  /\ UNCHANGED view

\* A failed load changes nothing.
Fail ==
  /\ load = "loading"
  /\ load' = "failed"
  /\ UNCHANGED <<current, view>>

Stop ==
  /\ load' = "stopped"
  /\ UNCHANGED <<current, view>>

Read(r) ==
  /\ view[r] = {}
  /\ view' = [view EXCEPT ![r] = {current}]
  /\ UNCHANGED <<current, load>>

Forget(r) ==
  /\ view' = [view EXCEPT ![r] = {}]
  /\ UNCHANGED <<current, load>>

Next ==
  \/ Begin \/ Succeed \/ Fail \/ Stop
  \/ \E r \in Readers : Read(r) \/ Forget(r)
Spec == Init /\ [][Next]_vars
=============================================================================
