----------------------------- MODULE DoorCheckin -----------------------------
(***************************************************************************)
(* Tickets checked in at several doors by scanners that work offline, and  *)
(* the server that merges what they recorded.                              *)
(*                                                                         *)
(*   apps/web/src/lib/scanner/store.svelte.ts   provision, scan, sync      *)
(*   apps/web/src/lib/scanner/db.ts             the device's IndexedDB     *)
(*   apps/server/src/lib/checkin/store.ts       passes and merged set      *)
(*   apps/server/src/routes/checkin.ts          pack and sync              *)
(*                                                                         *)
(* A device keeps one database for all the events it is ever used for.     *)
(* Whether a QR code matches its pack decides who is scanned and who is    *)
(* ticked off the roster by hand; either way the entry is one record, and  *)
(* what becomes of the records is the subject here.                        *)
(***************************************************************************)
EXTENDS Naturals, FiniteSetsExt

CONSTANTS
  Devices, Tickets, Events,
  EventOf,        \* the event of each ticket
  Times,          \* what a device's clock may say
  MaxPasses,      \* bound: door passes issued for an event
  MaxResets,      \* bound: devices wiped
  SwitchEvents,   \* a device with a pass may open the door pass of another event
  NoPass

ASSUME DoorAssumption ==
  /\ EventOf \in [Tickets -> Events] /\ Times \subseteq Nat
  /\ MaxPasses \in Nat /\ MaxResets \in Nat
  /\ SwitchEvents \in BOOLEAN /\ NoPass \notin [event: Events, jti: 1..MaxPasses]

VARIABLES
  active,     \* the pass each event accepts; 0 before the first
  records,    \* checkins/{event}.json
  pass,       \* the pass a device was provisioned with
  checkins,   \* a device's nullifier set, one record per ticket
  pending,    \* its records not yet acknowledged by the server
  dead,       \* the server refused the pass; forgotten by a reload
  sync,       \* the request in flight, if any
  admitted,   \* records by which somebody was let in (history)
  wiped,      \* those of them wiped off a device unsent (history)
  resets

server == <<active, records>>
device == <<pass, checkins, pending, dead>>
history == <<admitted, wiped>>
doorVars == <<server, device, sync, history, resets>>

Record == [ticket: Tickets, device: Devices, at: Times]
Pass == [event: Events, jti: 1..MaxPasses]
NoSync == [at |-> "idle"]
Requests == [at: {"asked"}, pass: Pass, sent: SUBSET Record]
            \union [at: {"refused"}]
            \union [at: {"answered"}, sent: SUBSET Record, merged: SUBSET Record]
OnePerTicket(set) == \A r, s \in set : r.ticket = s.ticket => r = s

DoorTypeOK ==
  /\ active \in [Events -> 0..MaxPasses]
  /\ records \in [Events -> SUBSET Record]
  /\ pass \in [Devices -> Pass \union {NoPass}]
  /\ checkins \in [Devices -> SUBSET Record] /\ pending \in [Devices -> SUBSET Record]
  /\ \A d \in Devices : OnePerTicket(checkins[d]) /\ OnePerTicket(pending[d])
  /\ dead \in [Devices -> BOOLEAN]
  /\ sync \in [Devices -> Requests \union {NoSync}]
  /\ wiped \subseteq admitted /\ admitted \subseteq Record
  /\ resets \in 0..MaxResets

DoorInit ==
  /\ active = [e \in Events |-> 0] /\ records = [e \in Events |-> {}]
  /\ pass = [d \in Devices |-> NoPass] /\ checkins = [d \in Devices |-> {}]
  /\ pending = checkins /\ dead = [d \in Devices |-> FALSE]
  /\ sync = [d \in Devices |-> NoSync]
  /\ admitted = {} /\ wiped = {} /\ resets = 0

-----------------------------------------------------------------------------
(* The two merges. *)

Same(r, s) == r.ticket = s.ticket /\ r.device = s.device

\* Mutant: the record that came last replaces the one before it.
MergeLatest(existing, incoming) ==
  {r \in existing \union incoming :
     \A s \in existing \union incoming : Same(r, s) => r.at >= s.at}

\* mergeCheckins: the union, the earliest of a device's records of a ticket.
Merge(existing, incoming) ==
  {r \in existing \union incoming :
     \A s \in existing \union incoming : Same(r, s) => r.at <= s.at}

Of(t, set) == {r \in set : r.ticket = t}
Earliest(set) == {r \in set : \A s \in set : r.at <= s.at}

\* Mutant: the server's records win only where the device has none.
AbsorbedIfNew(own, merged) ==
  own \union {CHOOSE r \in Earliest(Of(t, merged)) : TRUE :
               t \in {r.ticket : r \in merged} \ {r.ticket : r \in own}}

\* absorbServerCheckins: a record is replaced by an earlier one only.
Absorbed(own, merged) ==
  LET Tk == {r.ticket : r \in own \union merged}
  IN  {IF Earliest(Of(t, own \union merged)) \intersect own # {}
       THEN CHOOSE r \in Of(t, own) : TRUE
       ELSE CHOOSE r \in Earliest(Of(t, merged)) : TRUE : t \in Tk}

-----------------------------------------------------------------------------
(* The organiser. *)

\* A new pass revokes the one before it.
IssuePass(e) ==
  /\ active[e] < MaxPasses
  /\ active' = [active EXCEPT ![e] = @ + 1]
  /\ UNCHANGED <<records, device, sync, history, resets>>

-----------------------------------------------------------------------------
(* A device. *)

MayOpen(d, e) == pass[d] # NoPass => pass[d].event = e \/ SwitchEvents

Provision(d, e) ==
  /\ active[e] > 0 /\ MayOpen(d, e)
  /\ pass' = [pass EXCEPT ![d] = [event |-> e, jti |-> active[e]]]
  /\ dead' = [dead EXCEPT ![d] = FALSE]
  /\ checkins' = [checkins EXCEPT ![d] = Absorbed(@, records[e])]
  /\ UNCHANGED <<server, pending, sync, history, resets>>

RefreshPack(d) ==
  /\ pass[d] # NoPass /\ pass[d].jti = active[pass[d].event]
  /\ checkins' = [checkins EXCEPT ![d] = Absorbed(@, records[pass[d].event])]
  /\ UNCHANGED <<server, pass, pending, dead, sync, history, resets>>

Known(d, t) == Of(t, checkins[d]) # {}

\* checkAndMark: the check, the nullifier and the queue in one transaction. A
\* device's own clock does not go back; two devices' clocks may disagree.
Admit(d, t, at) ==
  /\ pass[d] # NoPass /\ EventOf[t] = pass[d].event
  /\ ~Known(d, t) /\ \A r \in admitted : r.device = d => r.at <= at
  /\ LET r == [ticket |-> t, device |-> d, at |-> at]
     IN  /\ checkins' = [checkins EXCEPT ![d] = @ \union {r}]
         /\ pending' = [pending EXCEPT ![d] = (@ \ Of(t, @)) \union {r}]
         /\ admitted' = admitted \union {r}
         /\ wiped' = wiped \ {r}
  /\ UNCHANGED <<server, pass, dead, sync, resets>>

Asks(d) == [at |-> "asked", pass |-> pass[d], sent |-> pending[d]]
SyncAsk(d) ==
  /\ pass[d] # NoPass /\ ~dead[d] /\ sync[d] = NoSync
  /\ sync' = [sync EXCEPT ![d] = Asks(d)]
  /\ UNCHANGED <<server, device, history, resets>>

SyncServer(d) ==
  /\ sync[d].at = "asked"
  /\ LET e == sync[d].pass.event
         merged == Merge(records[e], sync[d].sent)
     IN  \/ /\ sync[d].pass.jti # active[e]
            /\ sync' = [sync EXCEPT ![d] = [at |-> "refused"]]
            /\ UNCHANGED records
         \/ /\ sync[d].pass.jti = active[e]
            /\ records' = [records EXCEPT ![e] = merged]
            /\ sync' = [sync EXCEPT ![d] = [at |-> "answered", sent |-> sync[d].sent,
                                            merged |-> merged]]
  /\ UNCHANGED <<active, device, history, resets>>

\* The request, or the answer to it, is lost; or the server could not write.
SyncLost(d) ==
  /\ sync[d] # NoSync
  /\ sync' = [sync EXCEPT ![d] = NoSync]
  /\ UNCHANGED <<server, device, history, resets>>

SyncRefused(d) ==
  /\ sync[d].at = "refused"
  /\ sync' = [sync EXCEPT ![d] = NoSync] /\ dead' = [dead EXCEPT ![d] = TRUE]
  /\ UNCHANGED <<server, pass, checkins, pending, history, resets>>

\* Mutant: the queue is cleared when an answer comes.
LeftNothing(queue, sent) == {}

\* The records that were sent leave the queue, by their tickets.
Left(queue, sent) == {r \in queue : Of(r.ticket, sent) = {}}
SyncAnswer(d) ==
  /\ sync[d].at = "answered"
  /\ checkins' = [checkins EXCEPT ![d] = Absorbed(@, sync[d].merged)]
  /\ pending' = [pending EXCEPT ![d] = Left(@, sync[d].sent)]
  /\ sync' = [sync EXCEPT ![d] = NoSync]
  /\ UNCHANGED <<server, pass, dead, history, resets>>

\* The database stays, what was in the page's memory goes.
Reload(d) ==
  /\ dead' = [dead EXCEPT ![d] = FALSE] /\ sync' = [sync EXCEPT ![d] = NoSync]
  /\ UNCHANGED <<server, pass, checkins, pending, history, resets>>

\* Hand the device back. A request in flight is still answered.
Reset(d) ==
  /\ resets < MaxResets /\ resets' = resets + 1
  /\ pass' = [pass EXCEPT ![d] = NoPass]
  /\ checkins' = [checkins EXCEPT ![d] = {}] /\ pending' = [pending EXCEPT ![d] = {}]
  /\ dead' = [dead EXCEPT ![d] = FALSE]
  /\ wiped' = wiped \union {r \in admitted : \E s \in pending[d] : Same(r, s)}
  /\ UNCHANGED <<server, sync, admitted>>

DoorNext ==
  \/ \E e \in Events : IssuePass(e)
  \/ \E d \in Devices :
       \/ \E e \in Events : Provision(d, e)
       \/ \E t \in Tickets, at \in Times : Admit(d, t, at)
       \/ RefreshPack(d) \/ SyncAsk(d) \/ SyncServer(d) \/ SyncLost(d)
       \/ SyncRefused(d) \/ SyncAnswer(d) \/ Reload(d) \/ Reset(d)

DoorSpec == DoorInit /\ [][DoorNext]_doorVars

\* The timer asks every 30 seconds, and a network that is up again and again
\* carries a request and its answer at last.
DoorFairness ==
  \A d \in Devices : /\ WF_doorVars(SyncAsk(d)) /\ SF_doorVars(SyncServer(d))
                     /\ SF_doorVars(SyncAnswer(d) \/ SyncRefused(d))
DoorFairSpec == DoorSpec /\ DoorFairness
-----------------------------------------------------------------------------
\* Whoever was let in is in the set of the ticket's own event, or still queued
\* on the device that let them in, unless the device was wiped before it synced.
NoCheckinLost ==
  \A r \in admitted \ wiped :
    \/ \E s \in records[EventOf[r.ticket]] : Same(r, s)
    \/ \E s \in pending[r.device] : Same(r, s)

\* A device's screen names a check-in that the server knows of too, at that time
\* or an earlier one, or that the device still has to send: no door turns a guest
\* away over an entry that nobody can account for.
ShownIsVouched ==
  \A d \in Devices : \A r \in checkins[d] :
    \/ r \in pending[d]
    \/ \E s \in records[EventOf[r.ticket]] : s.ticket = r.ticket /\ s.at <= r.at

\* What one door recorded is sent and reaches every other door, and they settle on
\* the earliest entry, however late each of them synced: as long as both keep a
\* pass that the server accepts.
Works(d, e) == pass[d] # NoPass /\ ~dead[d] /\ pass[d].event = e
ShowsFirst(d, t) ==
  \E r \in checkins[d] :
    r.ticket = t /\ \A s \in Of(t, records[EventOf[t]]) : r.at <= s.at
EveryDoorHears ==
  \A c, d \in Devices, t \in Tickets :
    Known(c, t) /\ Works(c, EventOf[t]) /\ Works(d, EventOf[t])
      ~> \/ Of(t, pending[c]) = {} /\ ShowsFirst(d, t)
         \/ ~Works(c, EventOf[t]) \/ ~Works(d, EventOf[t])

\* The comment of passDead: set when the server said the pass was revoked.
DeadIsRevoked ==
  \A d \in Devices : dead[d] /\ pass[d] # NoPass => pass[d].jti # active[pass[d].event]

=============================================================================
