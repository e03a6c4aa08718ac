------------------------------ MODULE DurableLog ------------------------------
(***************************************************************************)
(* What a session file promises to the processes that write it.            *)
(*                                                                         *)
(* The file is one log.  A writer holds the prefix it last read or wrote   *)
(* (its view) and may append one batch of events only while that prefix is *)
(* still the whole log: src/harness/session-file/README.md calls it a      *)
(* revision-checked, atomic replacement.  An absent file is the empty log, *)
(* and create() is the first entry.                                        *)
(*                                                                         *)
(* SessionFileLock implements this module over link, unlink, rename and    *)
(* process death.                                                          *)
(***************************************************************************)
EXTENDS Sequences

CONSTANTS Writer, Entry

VARIABLES log, view

vars == <<log, view>>

Init ==
    /\ log = << >>
    /\ view = [w \in Writer |-> << >>]

(* Opening a store reads the whole log.                                    *)
Open(w) ==
    /\ view' = [view EXCEPT ![w] = log]
    /\ UNCHANGED log

(* An append is a compare-and-swap on the whole log.                       *)
Commit(w) ==
    /\ view[w] = log
    /\ \E e \in Entry : log' = Append(log, e)
    /\ view' = [view EXCEPT ![w] = log']

(* A writer that dies forgets what it read; the log does not.              *)
Forget(w) ==
    /\ view' = [view EXCEPT ![w] = << >>]
    /\ UNCHANGED log

Next == \E w \in Writer : Open(w) \/ Commit(w) \/ Forget(w)

Spec == Init /\ [][Next]_vars
===============================================================================
