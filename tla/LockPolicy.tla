----------------------------- MODULE LockPolicy -----------------------------
(***************************************************************************)
(* What the idle-lock controller promises, without its loop, its clocks or *)
(* its threads: an idle episode is answered by at most one successful      *)
(* workstation lock, and a spent episode is renewed only by input recorded *)
(* after the input the lock answered, or by one observed discontinuity of  *)
(* the runtime.                                                            *)
(***************************************************************************)
EXTENDS Naturals

CONSTANT None   \* "no episode is spent"

VARIABLES
  inputs,         \* accepted input events so far
  spent,          \* the input count the last lock answered, or None
  asking,         \* the workstation is being asked to lock
  discontinuity   \* a resume-like gap has been observed and not yet acted on

policyVars == <<inputs, spent, asking, discontinuity>>

PolicyInit ==
  /\ inputs = 0
  /\ spent = None
  /\ asking = FALSE
  /\ discontinuity = FALSE

Input ==
  /\ inputs' = inputs + 1
  /\ UNCHANGED <<spent, asking, discontinuity>>

ObserveGap ==
  /\ ~asking
  /\ discontinuity' = TRUE
  /\ UNCHANGED <<inputs, spent, asking>>

\* The workstation is asked to lock only in an episode that is not spent.
Ask ==
  /\ spent = None /\ ~asking /\ ~discontinuity
  /\ asking' = TRUE
  /\ UNCHANGED <<inputs, spent, discontinuity>>

\* The one lock of an episode.
SpendEpisode ==
  /\ asking
  /\ asking' = FALSE
  /\ spent' \in 0 .. inputs
  /\ UNCHANGED <<inputs, discontinuity>>

\* The workstation refuses, or the runtime ends first: nothing is spent.
GiveUpAsking ==
  /\ asking
  /\ asking' = FALSE
  /\ UNCHANGED <<inputs, spent, discontinuity>>

\* Input newer than the one the lock answered starts a new episode.
RenewByInput ==
  /\ spent # None /\ ~asking
  /\ spent < inputs
  /\ spent' = None
  /\ UNCHANGED <<inputs, asking, discontinuity>>

\* A discontinuity starts a new episode, once.
RenewByResume ==
  /\ discontinuity
  /\ discontinuity' = FALSE
  /\ spent' = None
  /\ UNCHANGED <<inputs, asking>>

\* The runtime ends before it acts on the discontinuity it observed.
AbandonGap ==
  /\ discontinuity
  /\ discontinuity' = FALSE
  /\ UNCHANGED <<inputs, spent, asking>>

PolicyNext ==
  \/ Input
  \/ ObserveGap
  \/ Ask
  \/ SpendEpisode
  \/ GiveUpAsking
  \/ RenewByInput
  \/ RenewByResume
  \/ AbandonGap

PolicySpec == PolicyInit /\ [][PolicyNext]_policyVars
=============================================================================
