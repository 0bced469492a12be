---------------------- MODULE CapacityEventsProperties ----------------------
(***************************************************************************)
(* What has to hold of CapacityEvents, checked by the runs of              *)
(* MCCapacityEvents.                                                       *)
(***************************************************************************)
EXTENDS CapacityEvents

AnyEvent == Event \cup {NoEvent}

\* Every variable holds what its column, mutex or map can hold.
TypeOK ==
    /\ now \in Time
    /\ DOMAIN address \subseteq Ident
    /\ container \in [Instance -> DOMAIN address \cup {0}]
    /\ \A n \in DOMAIN address : address[n] \in Address
    /\ sent \subseteq Event
    /\ \A i \in Instance : row[i] \in Row /\ work[i] \in Row
    /\ DOMAIN log \subseteq Event /\ \A e \in DOMAIN log : log[e] \in Result
    /\ lock \in [Instance -> Executor \cup {Nobody, Owner}]
    /\ admission \in Executor \cup {Nobody}
    /\ \A x \in Executor :
          /\ exec[x].event \in AnyEvent /\ exec[x].copy \in Row
          /\ exec[x].result \in Result
          /\ exec[x].pc \in {"idle", "apply", "admit", "allocate", "touch", "update",
                             "store", "request", "reclaim", "drain", "complete", "done"}
    /\ replay.cursor \in AnyEvent /\ replay.todo \subseteq Event
    /\ pull.stage \in {"idle", "read", "list", "sweep"} /\ pull.observed \in Time
    /\ pull.view \in [Instance -> DOMAIN address \cup {0}] /\ pull.todo \subseteq Instance
    /\ missing \in [Instance -> {"none", "running", "elapsed"}]
    /\ shown \in [Instance -> Sight]
    /\ faults \in 0 .. MaxFaults

-----------------------------------------------------------------------------
(***************************************************************************)
(* Events and rows.                                                        *)
(***************************************************************************)

Revoked(ident) ==
    \E e \in DOMAIN log : e.kind = "REVOKED" /\ e.ident = ident /\ log[e] = "APPLIED"

\* A delayed add cannot undo a revoke: HasRevokeAfter "retains the ordering
\* barrier even when revoke arrived before the instance ever existed"
\* (sqlite.go:260-261).  Once a revoke that names a lease is answered APPLIED,
\* no offer brings that lease in, however late it arrives and whoever replays it.
RevokedNotAdmitted ==
    [][\A i \in Instance :
          Active(row'[i]) /\ ~Active(row[i]) => ~Revoked(row'[i].ident)]_vars

\* "Each handler first checks the current lease/state, so interrupted delivery
\* can resume without resurrection" (events.go:74-76): a lease whose revoke was
\* answered APPLIED is not up afterwards, unless its reclaim is pending.
RevokedStaysDown ==
    \A i \in Instance :
        Active(row[i]) /\ Revoked(row[i].ident) => row[i].pr

\* Offers and identity changes that run at the same time, each of which saw the
\* address free, are never both stored: no two active instances have, or wait
\* for, the same endpoint (events.go:242-246 and 351-358).
EndpointExclusive ==
    \A i, j \in Instance : i # j => ReservedBy(row[i]) \cap ReservedBy(row[j]) = {}

\* "A duplicate event never triggers a lifecycle action again" (events.go:20):
\* what an event was answered is never changed by a delivery, a replay from an
\* old list of pending records or a restart.
DecidedIsFinal ==
    [][\A e \in DOMAIN log \cap DOMAIN log' :
          log[e] \in Verdict => log'[e] = log[e]]_vars

\* Late events are refused: pushes that arrive in any order, interrupted and
\* replayed, never take an instance back to a container the partner has already
\* replaced (events.go:201-203, 305-311).
IdentityNotTakenBack ==
    [][\A i \in Instance : Wanted(row'[i]) >= Wanted(row[i])]_vars

-----------------------------------------------------------------------------
(***************************************************************************)
(* Pulls.                                                                  *)
(***************************************************************************)

PulledRevokes ==
    {e \in DOMAIN log' \ DOMAIN log : e.src = "pull" /\ e.kind = "REVOKED"}

\* An absence has to outlast its grace (pull_reconcile.go:132-150): a
\* pulled revoke is claimed only for an instance that no completed round has seen
\* since the miss its grace counts from, whatever the rows did meanwhile.
AbsenceForgiven ==
    [][\A e \in PulledRevokes : shown[e.inst] # "completed"]_vars

\* "Visible again: any absence clock is forgiven, so a later absence owes its full
\* grace from its own first miss" (pull_reconcile.go:97-99): no snapshot at all has
\* shown the instance since that miss.
VisibleIsForgiven ==
    [][\A e \in PulledRevokes : shown[e.inst] = "no"]_vars

\* No event stays undecided: whatever events collided with, and after a crash,
\* the replay gets to them (event_recovery.go:12-14), so again and again nothing
\* is pending.
EventDecided == []<>(Pending = {})

(***************************************************************************)
(* The rows agree with what the partner holds.                             *)
(***************************************************************************)
Agrees(i) ==
    IF container[i] = 0 THEN ~Active(row[i])
    ELSE Active(row[i]) /\ row[i].ident = container[i] /\ ~HasUpdate(row[i])

\* "This repairs a missed Push, a reverted snapshot, and an unchanged snapshot
\* after state drift" (pull_reconcile.go:17-19): when the partner has settled,
\* pulls bring every row to what it holds, whichever pushes were lost.
ViewConverges == <>[](\A i \in Instance : Agrees(i))
=============================================================================
