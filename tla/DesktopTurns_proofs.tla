-------------------------- MODULE DesktopTurns_proofs --------------------------
(***************************************************************************)
(* What the desktop promises of its turns for any number of sessions,      *)
(* turns and events, whatever the capacity of the list of early events:    *)
(* the events of a turn arrive exactly, a turn that ends leaves nothing    *)
(* behind, and the cancel button belongs to the one turn that runs.        *)
(*                                                                         *)
(* The invariant follows an event from the host to the turn.  What the     *)
(* host sent of a turn is, in this order: what the turn got, what its      *)
(* queue holds (or, before the turn's id is known, what was kept for it),  *)
(* and what is still on the wire.                                          *)
(***************************************************************************)
EXTENDS MCDesktop, FiniteSetTheorems, TLAPS

EventTypes == Terminals \cup {"delta"}
TauriPcs   == {"listening", "starting", "waiting", "ended"}
HttpPcs    == {"fetching", "reading", "ended"}

TurnRecords ==
  [session : Sessions, aborted : BOOLEAN, got : Seq([turn : Nat, type : EventTypes]),
   hold : {"asked", "on", "released"}, pc : TauriPcs \cup HttpPcs,
   pending : Seq(EventTypes), others : Nat, queue : Seq(EventTypes), failed : BOOLEAN,
   host : {"none", "asked", "running", "refused", "done"},
   sent : Seq(EventTypes), wire : Seq(EventTypes)]

WindowTypes ==
  /\ bridge \in {"tauri", "http"} /\ disposed \in BOOLEAN /\ isSubmitting \in BOOLEAN
  /\ active \in Sessions \cup {None}
  /\ turn \in Seq(TurnRecords)
  /\ ctrl \in [Sessions -> Turns \cup {None}]

\* A turn is sent only when the one before it has ended.
OnlyLastRuns == \A t \in Turns : turn[t].pc # "ended" => t = Len(turn)

\* While the window is mounted, the button and the controller are the turn's.
ButtonIsTheTurn ==
  ~disposed =>
    /\ isSubmitting <=> \E t \in Turns : turn[t].pc # "ended"
    /\ \A t \in Turns : turn[t].pc # "ended" => ctrl[turn[t].session] = t

\* Each bridge has its own steps.
OnItsBridge(r) ==
  /\ bridge = "tauri" => r.pc \in TauriPcs
  /\ bridge = "http" => r.pc \in HttpPcs /\ r.wire = <<>>

\* The listener or the response follows the turn.
HoldFollows(r) ==
  /\ r.pc = "ended" => r.hold # "on"
  /\ r.pc \in {"starting", "waiting", "reading"} => r.hold = "on"
  /\ r.pc \in {"listening", "fetching"} => r.hold = "asked"

\* The host sends nothing before it runs, and nothing after a terminal event.
SentEnds(r) ==
  /\ \A i \in 1 .. Len(r.sent) : r.sent[i] \in Terminals => i = Len(r.sent) /\ r.host = "done"
  /\ r.host \in {"none", "asked", "refused"} => r.sent = <<>>

\* How much of what was sent has left the wire, which holds the rest.
Delivered(r) == Len(r.sent) - Len(r.wire)
WireIsRest(r) ==
  /\ Len(r.wire) <= Len(r.sent)
  /\ \A i \in 1 .. Len(r.wire) : r.wire[i] = r.sent[Delivered(r) + i]

\* What a turn got are its own events, the first that were sent.
GotIsFirst(r, t) ==
  /\ Len(r.got) <= Len(r.sent)
  /\ \A i \in 1 .. Len(r.got) : r.got[i].turn = t /\ r.got[i].type = r.sent[i]

\* Before the turn's id is known everything delivered is kept, or the listener
\* has failed.
KeptIsDelivered(r) ==
  /\ r.pc = "listening" => r.host = "none" /\ r.pending = <<>>
  /\ r.pc \in {"listening", "starting", "fetching"} => r.got = <<>> /\ r.queue = <<>>
  /\ r.pc = "starting" /\ ~r.failed =>
       /\ Len(r.pending) = Delivered(r)
       /\ \A i \in 1 .. Len(r.pending) : r.pending[i] = r.sent[i]

\* Afterwards the queue continues what the turn got up to what was delivered.
QueueContinues(r) ==
  r.pc = "waiting" =>
    /\ r.failed => r.queue = <<>>
    /\ ~r.failed => /\ Len(r.got) + Len(r.queue) = Delivered(r)
                    /\ \A i \in 1 .. Len(r.queue) : r.queue[i] = r.sent[Len(r.got) + i]

TurnInv(r, t) == /\ OnItsBridge(r) /\ HoldFollows(r) /\ SentEnds(r) /\ WireIsRest(r)
                 /\ GotIsFirst(r, t) /\ KeptIsDelivered(r) /\ QueueContinues(r)

WindowInv == /\ WindowTypes /\ OnlyLastRuns /\ ButtonIsTheTurn
             /\ \A t \in Turns : TurnInv(turn[t], t)

(***************************************************************************)
(* One turn's record: what each step makes of it.                          *)
(***************************************************************************)
LEMMA LenIsNat == ASSUME NEW S, NEW q \in Seq(S) PROVE Len(q) \in Nat
OBVIOUS

LEMMA RecordTypes ==
  ASSUME NEW r \in TurnRecords
  PROVE  /\ r.got \in Seq([turn : Nat, type : EventTypes])
         /\ r.queue \in Seq(EventTypes) /\ r.pending \in Seq(EventTypes)
         /\ r.sent \in Seq(EventTypes) /\ r.wire \in Seq(EventTypes)
         /\ Len(r.got) \in Nat /\ Len(r.queue) \in Nat /\ Len(r.pending) \in Nat
         /\ Len(r.sent) \in Nat /\ Len(r.wire) \in Nat
<1>1. /\ r.got \in Seq([turn : Nat, type : EventTypes])
      /\ r.queue \in Seq(EventTypes) /\ r.pending \in Seq(EventTypes)
      /\ r.sent \in Seq(EventTypes) /\ r.wire \in Seq(EventTypes)
  BY DEF TurnRecords
<1> QED BY <1>1, LenIsNat

\* A turn ends with what it got.
LEMMA Ending ==
  ASSUME NEW r \in TurnRecords, NEW t, TurnInv(r, t),
         NEW got \in Seq([turn : Nat, type : EventTypes]),
         Len(got) <= Len(r.sent),
         \A i \in 1 .. Len(got) : got[i].turn = t /\ got[i].type = r.sent[i],
         NEW new,
         new = [r EXCEPT !.pc = "ended", !.got = got, !.hold = Released(@), !.queue = <<>>]
  PROVE  new \in TurnRecords /\ new.session = r.session /\ TurnInv(new, t)
<1>1. <<>> \in Seq(EventTypes) OBVIOUS
<1>2. new \in TurnRecords BY <1>1 DEF TurnRecords, TauriPcs, Released
<1>3. /\ new.pc = "ended" /\ new.got = got /\ new.hold = Released(r.hold)
      /\ new.sent = r.sent /\ new.wire = r.wire /\ new.host = r.host /\ new.session = r.session
  BY DEF TurnRecords
<1>4. OnItsBridge(new) BY <1>3 DEF TurnInv, OnItsBridge, TauriPcs, HttpPcs
<1>5. HoldFollows(new) BY <1>3 DEF HoldFollows, Released
<1>6. SentEnds(new) /\ WireIsRest(new) BY <1>3 DEF TurnInv, SentEnds, WireIsRest, Delivered
<1>7. GotIsFirst(new, t) BY <1>3 DEF GotIsFirst
<1>8. KeptIsDelivered(new) /\ QueueContinues(new) BY <1>3 DEF KeptIsDelivered, QueueContinues
<1> QED BY <1>2, <1>3, <1>4, <1>5, <1>6, <1>7, <1>8 DEF TurnInv

\* The next event of a turn: got stays the first of what was sent.
Begins(got, sent, t) == \A i \in 1 .. Len(got) : got[i].turn = t /\ got[i].type = sent[i]

LEMMA GotGrows ==
  ASSUME NEW sent \in Seq(EventTypes), NEW old \in Seq([turn : Nat, type : EventTypes]), NEW t \in Nat,
         Begins(old, sent, t), Len(old) < Len(sent),
         NEW event, event = [turn |-> t, type |-> sent[Len(old) + 1]]
  PROVE  /\ Append(old, event) \in Seq([turn : Nat, type : EventTypes])
         /\ Len(Append(old, event)) = Len(old) + 1 /\ Len(Append(old, event)) <= Len(sent)
         /\ Begins(Append(old, event), sent, t)
<1>1. Len(old) \in Nat /\ Len(sent) \in Nat BY LenIsNat
<1>2. Len(old) + 1 \in 1 .. Len(sent) BY <1>1
<1>3. sent[Len(old) + 1] \in EventTypes BY <1>2
<1>4. event \in [turn : Nat, type : EventTypes] BY <1>3
<1>5. Append(old, event) \in Seq([turn : Nat, type : EventTypes]) /\ Len(Append(old, event)) = Len(old) + 1
  BY <1>4
<1>6. \A i \in 1 .. Len(old) : Append(old, event)[i] = old[i] BY <1>4
<1>7. Append(old, event)[Len(old) + 1] = event BY <1>4
<1>8. \A i \in 1 .. Len(old) + 1 : i \in 1 .. Len(old) \/ i = Len(old) + 1 BY <1>1
<1>9. Len(old) + 1 <= Len(sent) BY <1>1
<1> QED BY <1>5, <1>6, <1>7, <1>8, <1>9 DEF Begins

\* What is left of a queue continues what the turn has got.
LEMMA TailContinues ==
  ASSUME NEW S, NEW queue \in Seq(S), queue # <<>>, NEW g \in Nat, NEW sent,
         \A i \in 1 .. Len(queue) : queue[i] = sent[g + i]
  PROVE  /\ (g + 1) + Len(Tail(queue)) = g + Len(queue)
         /\ \A i \in 1 .. Len(Tail(queue)) : Tail(queue)[i] = sent[(g + 1) + i]
<1>1. Len(queue) \in Nat BY LenIsNat
<1>2. /\ Len(Tail(queue)) = Len(queue) - 1
      /\ \A i \in 1 .. Len(Tail(queue)) : Tail(queue)[i] = queue[i + 1]
  OBVIOUS
<1>3. (g + 1) + Len(Tail(queue)) = g + Len(queue) BY <1>1, <1>2
<1>4. \A i \in 1 .. Len(Tail(queue)) : i + 1 \in 1 .. Len(queue) /\ g + (i + 1) = (g + 1) + i
  BY <1>1, <1>2
<1> QED BY <1>2, <1>3, <1>4

LEMMA QueueShrinks ==
  ASSUME NEW r \in TurnRecords, QueueContinues(r), r.pc = "waiting", r.queue # <<>>
  PROVE  /\ ~r.failed /\ (Len(r.got) + 1) + Len(Tail(r.queue)) = Delivered(r)
         /\ \A i \in 1 .. Len(Tail(r.queue)) : Tail(r.queue)[i] = r.sent[(Len(r.got) + 1) + i]
<1>1. ~r.failed BY DEF TurnInv, QueueContinues
<1>2. /\ Len(r.got) + Len(r.queue) = Delivered(r)
      /\ \A i \in 1 .. Len(r.queue) : r.queue[i] = r.sent[Len(r.got) + i]
  BY <1>1 DEF TurnInv, QueueContinues
<1>3. r.queue \in Seq(EventTypes) /\ Len(r.got) \in Nat BY RecordTypes
<1>4. /\ (Len(r.got) + 1) + Len(Tail(r.queue)) = Len(r.got) + Len(r.queue)
      /\ \A i \in 1 .. Len(Tail(r.queue)) : Tail(r.queue)[i] = r.sent[(Len(r.got) + 1) + i]
  <2> DEFINE queue == r.queue
             g     == Len(r.got)
  <2>1. /\ queue \in Seq(EventTypes) /\ queue # <<>> /\ g \in Nat
        /\ \A i \in 1 .. Len(queue) : queue[i] = r.sent[g + i]
    BY <1>2, <1>3
  <2>2. /\ (g + 1) + Len(Tail(queue)) = g + Len(queue)
        /\ \A i \in 1 .. Len(Tail(queue)) : Tail(queue)[i] = r.sent[(g + 1) + i]
    <3> HIDE DEF queue, g
    <3> QED BY <2>1, TailContinues
  <2> QED BY <2>2
<1> QED BY <1>1, <1>2, <1>4

\* A turn that has not failed gets its next event.
LEMMA Continuing ==
  ASSUME NEW r \in TurnRecords, NEW t \in Nat, TurnInv(r, t),
         NEW rest \in Seq(EventTypes),
         \/ r.pc = "reading"
         \/ r.pc = "waiting" /\ r.queue # <<>> /\ rest = Tail(r.queue),
         NEW got \in Seq([turn : Nat, type : EventTypes]),
         Len(got) = Len(r.got) + 1, Len(got) <= Len(r.sent),
         \A i \in 1 .. Len(got) : got[i].turn = t /\ got[i].type = r.sent[i],
         NEW new, new = [r EXCEPT !.got = got, !.queue = rest]
  PROVE  new \in TurnRecords /\ new.session = r.session /\ TurnInv(new, t)
<1>1. new \in TurnRecords BY DEF TurnRecords
<1>2. /\ new.pc = r.pc /\ new.got = got /\ new.queue = rest /\ new.hold = r.hold /\ new.failed = r.failed
      /\ new.sent = r.sent /\ new.wire = r.wire /\ new.host = r.host /\ new.session = r.session
  BY DEF TurnRecords
<1>3. OnItsBridge(new) /\ HoldFollows(new) BY <1>2 DEF TurnInv, OnItsBridge, HoldFollows
<1>4. SentEnds(new) /\ WireIsRest(new) BY <1>2 DEF TurnInv, SentEnds, WireIsRest, Delivered
<1>5. GotIsFirst(new, t) BY <1>2 DEF GotIsFirst
<1>6. KeptIsDelivered(new) BY <1>2 DEF KeptIsDelivered
<1>7. QueueContinues(new)
  <2>1. CASE r.pc = "reading" BY <1>2, <2>1 DEF QueueContinues
  <2>2. CASE r.pc = "waiting" /\ r.queue # <<>> /\ rest = Tail(r.queue)
    <3>1. QueueContinues(r) BY DEF TurnInv
    <3>2. /\ ~r.failed /\ Len(got) + Len(rest) = Delivered(r)
          /\ \A i \in 1 .. Len(rest) : rest[i] = r.sent[Len(got) + i]
      BY <2>2, <3>1, QueueShrinks
    <3>3. Delivered(new) = Delivered(r) BY <1>2 DEF Delivered
    <3> QED BY <1>2, <3>2, <3>3 DEF QueueContinues
  <2> QED BY <2>1, <2>2
<1> QED BY <1>1, <1>2, <1>3, <1>4, <1>5, <1>6, <1>7 DEF TurnInv

\* The next event of a queue is the next that was sent.
LEMMA QueueHead ==
  ASSUME NEW r \in TurnRecords, NEW t, TurnInv(r, t), r.pc = "waiting", r.queue # <<>>
  PROVE  Len(r.got) < Len(r.sent) /\ Head(r.queue) = r.sent[Len(r.got) + 1]
<1>1. Len(r.queue) >= 1 BY RecordTypes
<1>2. 1 \in 1 .. Len(r.queue) /\ Head(r.queue) = r.queue[1] BY <1>1, RecordTypes
<1>3. ~r.failed BY DEF TurnInv, QueueContinues
<1>4. Len(r.got) + Len(r.queue) = Len(r.sent) - Len(r.wire)
  BY <1>3 DEF TurnInv, QueueContinues, Delivered
<1>5. \A g, q, n, w \in Nat : q >= 1 /\ g + q = n - w => g < n OBVIOUS
<1>6. Len(r.got) < Len(r.sent) BY <1>1, <1>4, <1>5, RecordTypes
<1>7. r.queue[1] = r.sent[Len(r.got) + 1] BY <1>2, <1>3 DEF TurnInv, QueueContinues
<1> QED BY <1>2, <1>6, <1>7

\* A cancelled turn, and one whose late listener or response is released.
LEMMA Marking ==
  ASSUME NEW r \in TurnRecords, NEW t, TurnInv(r, t), NEW new,
         \/ \E b \in BOOLEAN : new = [r EXCEPT !.aborted = b]
         \/ r.pc = "ended" /\ new = [r EXCEPT !.hold = "released"]
  PROVE  new \in TurnRecords /\ new.session = r.session /\ new.pc = r.pc /\ TurnInv(new, t)
<1>1. new \in TurnRecords BY ZenonT(60) DEF TurnRecords
<1>2. /\ new.pc = r.pc /\ new.got = r.got /\ new.queue = r.queue /\ new.pending = r.pending
      /\ new.failed = r.failed /\ new.sent = r.sent /\ new.wire = r.wire /\ new.host = r.host
      /\ new.session = r.session
      /\ new.hold = r.hold \/ (r.pc = "ended" /\ new.hold = "released")
  BY DEF TurnRecords
<1>3. OnItsBridge(new) /\ HoldFollows(new) BY <1>2 DEF TurnInv, OnItsBridge, HoldFollows
<1>4. Delivered(new) = Delivered(r) BY <1>2 DEF Delivered
<1>5. SentEnds(new) /\ WireIsRest(new) /\ GotIsFirst(new, t)
  BY <1>2, <1>4 DEF TurnInv, SentEnds, WireIsRest, GotIsFirst
<1>6. KeptIsDelivered(new) /\ QueueContinues(new)
  BY <1>2, <1>4, ZenonT(60) DEF TurnInv, KeptIsDelivered, QueueContinues
<1> QED BY <1>1, <1>2, <1>3, <1>5, <1>6 DEF TurnInv

\* The listener is registered, or the response has come.
LEMMA Holding ==
  ASSUME NEW r \in TurnRecords, NEW t, TurnInv(r, t), r.hold = "asked", NEW new,
         \/ r.pc = "listening" /\ new = [r EXCEPT !.hold = "on", !.pc = "starting", !.host = "asked"]
         \/ r.pc = "fetching" /\ new = [r EXCEPT !.hold = "on", !.pc = "reading"]
  PROVE  new \in TurnRecords /\ new.session = r.session /\ new.pc # "ended" /\ TurnInv(new, t)
<1>1. new \in TurnRecords BY ZenonT(60) DEF TurnRecords, TauriPcs, HttpPcs
<1>2. /\ new.got = r.got /\ new.queue = r.queue /\ new.pending = r.pending /\ new.failed = r.failed
      /\ new.sent = r.sent /\ new.wire = r.wire /\ new.session = r.session /\ new.hold = "on"
      /\ \/ r.pc = "listening" /\ new.pc = "starting" /\ new.host = "asked"
         \/ r.pc = "fetching" /\ new.pc = "reading" /\ new.host = r.host
  BY DEF TurnRecords
<1>3. OnItsBridge(new) /\ HoldFollows(new)
  BY <1>2 DEF TurnInv, OnItsBridge, HoldFollows, TauriPcs, HttpPcs
<1>4. Delivered(new) = Delivered(r) BY <1>2 DEF Delivered
<1>5. r.pc = "listening" => r.host = "none" /\ r.sent = <<>>
  BY DEF TurnInv, KeptIsDelivered, SentEnds
<1>6. SentEnds(new)
  <2>1. CASE r.pc = "listening" BY <1>2, <1>5, <2>1 DEF SentEnds
  <2>2. CASE r.pc = "fetching" BY <1>2, <2>2 DEF TurnInv, SentEnds
  <2> QED BY <1>2, <2>1, <2>2
<1>7. WireIsRest(new) /\ GotIsFirst(new, t) BY <1>2, <1>4 DEF TurnInv, WireIsRest, GotIsFirst
<1>8. KeptIsDelivered(new)
  <2>1. CASE r.pc = "listening"
    <3>1. Len(r.wire) <= 0 BY <1>5, <2>1 DEF TurnInv, WireIsRest
    <3>2. Len(r.sent) = 0 /\ Len(r.wire) = 0 BY <1>5, <2>1, <3>1, RecordTypes
    <3>3. r.pending = <<>> /\ r.got = <<>> /\ r.queue = <<>> BY <2>1 DEF TurnInv, KeptIsDelivered
    <3>4. Len(new.pending) = 0 /\ Delivered(new) = 0 BY <1>2, <3>2, <3>3 DEF Delivered
    <3> QED BY <1>2, <2>1, <3>3, <3>4 DEF KeptIsDelivered
  <2>2. CASE r.pc = "fetching" BY <1>2, <2>2 DEF KeptIsDelivered
  <2> QED BY <1>2, <2>1, <2>2
<1>9. QueueContinues(new) BY <1>2 DEF QueueContinues
<1> QED BY <1>1, <1>2, <1>3, <1>6, <1>7, <1>8, <1>9 DEF TurnInv

\* push drops nothing when only the last event is a terminal one.
LEMMA PushedIsAll ==
  ASSUME NEW types \in Seq(EventTypes),
         \A i \in 1 .. Len(types) : types[i] \in Terminals => i = Len(types)
  PROVE  Pushed(types) = types
<1> DEFINE ends == {i \in DOMAIN types : types[i] \in Terminals}
<1>1. CASE ends = {} BY <1>1, SMTT(30) DEF Pushed
<1>2. CASE ends # {}
  <2>1. \A i \in ends : i = Len(types) OBVIOUS
  <2>2. ends = {Len(types)} BY <1>2, <2>1
  <2>3. (CHOOSE i \in ends : \A j \in ends : i <= j) = Len(types)
    <3>1. Len(types) \in Nat BY LenIsNat
    <3>2. \E i \in ends : \A j \in ends : i <= j BY <2>2, <3>1
    <3> QED BY <2>2, <3>2
  <2>4. SubSeq(types, 1, Len(types)) = types OBVIOUS
  <2> QED BY <1>2, <2>3, <2>4 DEF Pushed
<1> QED BY <1>1, <1>2

\* The turn's id is known: what was kept becomes the queue.
LEMMA Starting ==
  ASSUME NEW r \in TurnRecords, NEW t, TurnInv(r, t),
         r.pc = "starting", NEW new,
         new = [r EXCEPT !.pc = "waiting", !.pending = <<>>, !.others = 0,
                         !.queue = IF r.failed THEN <<>> ELSE Pushed(r.pending)]
  PROVE  new \in TurnRecords /\ new.session = r.session /\ new.pc # "ended" /\ TurnInv(new, t)
<1>1. <<>> \in Seq(EventTypes) OBVIOUS
<1>2. r.got = <<>> /\ r.queue = <<>> BY DEF TurnInv, KeptIsDelivered
<1>3. ~r.failed => Pushed(r.pending) = r.pending
  <2> SUFFICES ASSUME ~r.failed PROVE Pushed(r.pending) = r.pending OBVIOUS
  <2>1. /\ Len(r.pending) = Len(r.sent) - Len(r.wire)
        /\ \A i \in 1 .. Len(r.pending) : r.pending[i] = r.sent[i]
    BY DEF TurnInv, KeptIsDelivered, Delivered
  <2>2. \A p, n, w \in Nat : p = n - w => \A i \in 1 .. p : i \in 1 .. n /\ (i = n => i = p)
    OBVIOUS
  <2>3. \A i \in 1 .. Len(r.pending) : i \in 1 .. Len(r.sent) /\ (i = Len(r.sent) => i = Len(r.pending))
    BY <2>1, <2>2, RecordTypes
  <2>4. \A i \in 1 .. Len(r.pending) : r.pending[i] \in Terminals => i = Len(r.pending)
    BY <2>1, <2>3 DEF TurnInv, SentEnds
  <2> QED BY <2>4, RecordTypes, PushedIsAll
<1>4. (IF r.failed THEN <<>> ELSE Pushed(r.pending)) \in Seq(EventTypes)
  BY <1>1, <1>3, RecordTypes
<1>5. new \in TurnRecords BY <1>1, <1>4 DEF TurnRecords, TauriPcs
<1>6. /\ new.pc = "waiting" /\ new.got = r.got /\ new.hold = r.hold /\ new.failed = r.failed
      /\ new.sent = r.sent /\ new.wire = r.wire /\ new.host = r.host /\ new.session = r.session
      /\ new.queue = IF r.failed THEN <<>> ELSE Pushed(r.pending)
  BY DEF TurnRecords
<1>7. OnItsBridge(new) /\ HoldFollows(new)
  BY <1>6 DEF TurnInv, OnItsBridge, HoldFollows, TauriPcs, HttpPcs
<1>8. Delivered(new) = Delivered(r) BY <1>6 DEF Delivered
<1>9. SentEnds(new) /\ WireIsRest(new) /\ GotIsFirst(new, t)
  BY <1>6, <1>8 DEF TurnInv, SentEnds, WireIsRest, GotIsFirst
<1>10. KeptIsDelivered(new) BY <1>6 DEF KeptIsDelivered
<1>11. QueueContinues(new)
  <2>1. CASE r.failed BY <1>6, <2>1 DEF QueueContinues
  <2>2. CASE ~r.failed
    <3>1. /\ Len(r.pending) = Delivered(r)
          /\ \A i \in 1 .. Len(r.pending) : r.pending[i] = r.sent[i]
      BY <2>2 DEF TurnInv, KeptIsDelivered
    <3>2. new.queue = r.pending /\ Len(new.got) = 0 BY <1>2, <1>3, <1>6, <2>2
    <3>3. \A n \in Nat : 0 + n = n /\ \A i \in 1 .. n : 0 + i = i OBVIOUS
    <3>4. 0 + Len(r.pending) = Len(r.pending) /\ \A i \in 1 .. Len(r.pending) : 0 + i = i
      BY <3>3, RecordTypes
    <3> QED BY <1>6, <1>8, <2>2, <3>1, <3>2, <3>4 DEF QueueContinues
  <2> QED BY <2>1, <2>2
<1> QED BY <1>5, <1>6, <1>7, <1>9, <1>10, <1>11 DEF TurnInv

(***************************************************************************)
(* An event leaves the wire.                                               *)
(***************************************************************************)
LEMMA WireShrinks ==
  ASSUME NEW r \in TurnRecords, WireIsRest(r), r.wire # <<>>
  PROVE  /\ Delivered(r) \in Nat /\ Tail(r.wire) \in Seq(EventTypes)
         /\ Head(r.wire) \in EventTypes /\ Head(r.wire) = r.sent[Delivered(r) + 1]
         /\ Len(Tail(r.wire)) <= Len(r.sent)
         /\ Len(r.sent) - Len(Tail(r.wire)) = Delivered(r) + 1
         /\ \A i \in 1 .. Len(Tail(r.wire)) : Tail(r.wire)[i] = r.sent[(Delivered(r) + 1) + i]
<1> DEFINE wire == r.wire
           n    == Len(r.sent)
           g    == Delivered(r)
<1>1. wire \in Seq(EventTypes) /\ wire # <<>> /\ n \in Nat /\ Len(wire) \in Nat BY RecordTypes
<1>2. Len(wire) <= n /\ \A i \in 1 .. Len(wire) : wire[i] = r.sent[g + i] BY DEF WireIsRest
<1>3. g = n - Len(wire) BY DEF Delivered
<1> HIDE DEF wire, n, g
<1>4. g \in Nat BY <1>1, <1>2, <1>3
<1>5. /\ (g + 1) + Len(Tail(wire)) = g + Len(wire)
      /\ \A i \in 1 .. Len(Tail(wire)) : Tail(wire)[i] = r.sent[(g + 1) + i]
  BY <1>1, <1>2, <1>4, TailContinues
<1>6. Tail(wire) \in Seq(EventTypes) /\ Head(wire) \in EventTypes /\ Head(wire) = wire[1] BY <1>1
<1>7. Len(Tail(wire)) \in Nat /\ 1 \in 1 .. Len(wire) BY <1>1, <1>6, LenIsNat
<1>8. Len(Tail(wire)) <= n /\ n - Len(Tail(wire)) = g + 1 BY <1>1, <1>3, <1>4, <1>5, <1>7
<1>9. Head(wire) = r.sent[g + 1] BY <1>2, <1>6, <1>7
<1>10. /\ g \in Nat /\ Tail(wire) \in Seq(EventTypes)
       /\ Head(wire) \in EventTypes /\ Head(wire) = r.sent[g + 1]
       /\ Len(Tail(wire)) <= n /\ n - Len(Tail(wire)) = g + 1
       /\ \A i \in 1 .. Len(Tail(wire)) : Tail(wire)[i] = r.sent[(g + 1) + i]
  BY <1>4, <1>5, <1>6, <1>8, <1>9
<1> QED BY <1>10 DEF wire, n, g

LEMMA AppendContinues ==
  ASSUME NEW S, NEW queue \in Seq(S), NEW g \in Nat, NEW sent,
         \A i \in 1 .. Len(queue) : queue[i] = sent[g + i],
         NEW d, g + Len(queue) = d, NEW x \in S, x = sent[d + 1]
  PROVE  /\ Append(queue, x) \in Seq(S)
         /\ g + Len(Append(queue, x)) = d + 1
         /\ \A i \in 1 .. Len(Append(queue, x)) : Append(queue, x)[i] = sent[g + i]
<1>1. Append(queue, x) \in Seq(S) /\ Len(Append(queue, x)) = Len(queue) + 1 /\ Len(queue) \in Nat
  BY LenIsNat
<1>2. g + Len(Append(queue, x)) = d + 1 BY <1>1
<1>3. \A i \in 1 .. Len(queue) : Append(queue, x)[i] = queue[i] BY <1>1
<1>4. Append(queue, x)[Len(queue) + 1] = x /\ g + (Len(queue) + 1) = d + 1 BY <1>1
<1>5. \A i \in 1 .. Len(Append(queue, x)) : i \in 1 .. Len(queue) \/ i = Len(queue) + 1 BY <1>1
<1> QED BY <1>1, <1>2, <1>3, <1>4, <1>5

\* A listener's turn gets an event of its own: it is kept, queued or ignored.
LEMMA AcceptingOwn ==
  ASSUME NEW r \in TurnRecords, NEW t, TurnInv(r, t), r.wire # <<>>,
         ~(r.pc = "waiting" /\ r.failed), NEW new, NEW type, type = Head(r.wire),
         \/ r.pc \in {"listening", "ended"} /\ new = [r EXCEPT !.wire = Tail(@)]
         \/ r.pc = "starting" /\ new = [r EXCEPT !.failed = TRUE, !.wire = Tail(@)]
         \/ r.pc = "starting" /\ new = [r EXCEPT !.pending = Append(@, type), !.wire = Tail(@)]
         \/ r.pc = "waiting" /\ new = [r EXCEPT !.queue = Append(@, type), !.wire = Tail(@)]
  PROVE  new \in TurnRecords /\ new.session = r.session /\ new.pc = r.pc /\ TurnInv(new, t)
<1>1. WireIsRest(r) BY DEF TurnInv
<1>2. /\ Delivered(r) \in Nat /\ Tail(r.wire) \in Seq(EventTypes)
      /\ type \in EventTypes /\ type = r.sent[Delivered(r) + 1]
      /\ Len(Tail(r.wire)) <= Len(r.sent)
      /\ Len(r.sent) - Len(Tail(r.wire)) = Delivered(r) + 1
      /\ \A i \in 1 .. Len(Tail(r.wire)) : Tail(r.wire)[i] = r.sent[(Delivered(r) + 1) + i]
  BY <1>1, WireShrinks
<1>3. Append(r.pending, type) \in Seq(EventTypes) /\ Append(r.queue, type) \in Seq(EventTypes)
  BY <1>2, RecordTypes
<1>4. new \in TurnRecords BY <1>2, <1>3, ZenonT(60) DEF TurnRecords
<1>5. /\ new.pc = r.pc /\ new.got = r.got /\ new.sent = r.sent /\ new.host = r.host
      /\ new.session = r.session /\ new.hold = r.hold /\ new.wire = Tail(r.wire)
  BY DEF TurnRecords
<1>6. bridge # "http" BY DEF TurnInv, OnItsBridge
<1>7. OnItsBridge(new) /\ HoldFollows(new)
  BY <1>5, <1>6 DEF TurnInv, OnItsBridge, HoldFollows
<1>8. Delivered(new) = Delivered(r) + 1 BY <1>2, <1>5 DEF Delivered
<1>9. SentEnds(new) /\ WireIsRest(new) /\ GotIsFirst(new, t)
  BY <1>2, <1>5, <1>8 DEF TurnInv, SentEnds, WireIsRest, GotIsFirst
<1>10. KeptIsDelivered(new) /\ QueueContinues(new)
  <2>1. CASE r.pc \in {"listening", "ended"}
    <3>1. new.pending = r.pending /\ new.queue = r.queue BY <2>1 DEF TurnRecords
    <3> QED BY <1>5, <2>1, <3>1 DEF TurnInv, KeptIsDelivered, QueueContinues
  <2>2. CASE r.pc = "starting" /\ new = [r EXCEPT !.failed = TRUE, !.wire = Tail(@)]
    <3>1. new.failed /\ new.queue = r.queue BY <2>2 DEF TurnRecords
    <3>2. r.got = <<>> /\ r.queue = <<>> BY <2>2 DEF TurnInv, KeptIsDelivered
    <3> QED BY <1>5, <2>2, <3>1, <3>2 DEF KeptIsDelivered, QueueContinues
  <2>3. CASE r.pc = "starting" /\ new = [r EXCEPT !.pending = Append(@, type), !.wire = Tail(@)]
    <3>1. /\ new.failed = r.failed /\ new.queue = r.queue /\ new.pending = Append(r.pending, type)
      BY <2>3 DEF TurnRecords
    <3>2. ASSUME ~r.failed
          PROVE  /\ Len(new.pending) = Delivered(new)
                 /\ \A i \in 1 .. Len(new.pending) : new.pending[i] = new.sent[i]
      <4>1. /\ Len(r.pending) = Delivered(r)
            /\ \A i \in 1 .. Len(r.pending) : r.pending[i] = r.sent[i]
        BY <2>3, <3>2 DEF TurnInv, KeptIsDelivered
      <4>2. r.pending \in Seq(EventTypes) BY RecordTypes
      <4>3. /\ Len(new.pending) = Len(r.pending) + 1
            /\ \A i \in 1 .. Len(r.pending) : new.pending[i] = r.pending[i]
            /\ new.pending[Len(r.pending) + 1] = type
        BY <1>2, <3>1, <4>2
      <4>4. \A i \in 1 .. Len(r.pending) + 1 : i \in 1 .. Len(r.pending) \/ i = Len(r.pending) + 1
        BY <1>2, <4>1
      <4> QED BY <1>2, <1>5, <1>8, <4>1, <4>3, <4>4, ZenonT(60)
    <3>3. r.got = <<>> /\ r.queue = <<>> BY <2>3 DEF TurnInv, KeptIsDelivered
    <3> QED BY <1>5, <2>3, <3>1, <3>2, <3>3 DEF KeptIsDelivered, QueueContinues
  <2>4. CASE r.pc = "waiting" /\ new = [r EXCEPT !.queue = Append(@, type), !.wire = Tail(@)]
    <3>1. ~r.failed /\ new.failed = r.failed /\ new.queue = Append(r.queue, type)
      BY <2>4 DEF TurnRecords
    <3>2. /\ Len(r.got) + Len(r.queue) = Delivered(r)
          /\ \A i \in 1 .. Len(r.queue) : r.queue[i] = r.sent[Len(r.got) + i]
      BY <2>4, <3>1 DEF TurnInv, QueueContinues
    <3> DEFINE queue == r.queue
               sent  == r.sent
               g     == Len(r.got)
               d     == Delivered(r)
    <3>3. /\ queue \in Seq(EventTypes) /\ g \in Nat /\ g + Len(queue) = d
          /\ \A i \in 1 .. Len(queue) : queue[i] = sent[g + i]
          /\ type \in EventTypes /\ type = sent[d + 1]
      BY <1>2, <3>2, RecordTypes
    <3>4. /\ g + Len(Append(queue, type)) = d + 1
          /\ \A i \in 1 .. Len(Append(queue, type)) : Append(queue, type)[i] = sent[g + i]
      <4> HIDE DEF queue, sent, g, d
      <4> QED BY <3>3, AppendContinues
    <3> QED BY <1>5, <1>8, <2>4, <3>1, <3>4 DEF KeptIsDelivered, QueueContinues
  <2> QED BY <2>1, <2>2, <2>3, <2>4
<1> QED BY <1>4, <1>5, <1>7, <1>9, <1>10 DEF TurnInv

\* An event of another turn takes room in the list, at most.
LEMMA AcceptingOther ==
  ASSUME NEW r \in TurnRecords, NEW t, TurnInv(r, t), NEW new,
         \/ new = r
         \/ r.pc = "starting" /\ new = [r EXCEPT !.failed = TRUE]
         \/ r.pc = "starting" /\ new = [r EXCEPT !.others = @ + 1]
  PROVE  new \in TurnRecords /\ new.session = r.session /\ new.pc = r.pc /\ TurnInv(new, t)
<1>1. new \in TurnRecords
  <2>1. CASE new = [r EXCEPT !.failed = TRUE] BY <2>1 DEF TurnRecords
  <2>2. CASE new = [r EXCEPT !.others = @ + 1]
    <3>1. PICK n \in Nat : n = r.others + 1 BY DEF TurnRecords
    <3>2. new = [r EXCEPT !.others = n] BY <2>2, <3>1 DEF TurnRecords
    <3> QED BY <3>2 DEF TurnRecords
  <2> QED BY <2>1, <2>2
<1>2. /\ new.pc = r.pc /\ new.got = r.got /\ new.queue = r.queue /\ new.pending = r.pending
      /\ new.sent = r.sent /\ new.wire = r.wire /\ new.host = r.host
      /\ new.session = r.session /\ new.hold = r.hold
      /\ new.failed = r.failed \/ (r.pc = "starting" /\ new.failed)
  BY DEF TurnRecords
<1>3. OnItsBridge(new) /\ HoldFollows(new) BY <1>2 DEF TurnInv, OnItsBridge, HoldFollows
<1>4. Delivered(new) = Delivered(r) BY <1>2 DEF Delivered
<1>5. SentEnds(new) /\ WireIsRest(new) /\ GotIsFirst(new, t)
  BY <1>2, <1>4 DEF TurnInv, SentEnds, WireIsRest, GotIsFirst
<1>6. KeptIsDelivered(new) /\ QueueContinues(new)
  BY <1>2, <1>4, ZenonT(60) DEF TurnInv, KeptIsDelivered, QueueContinues
<1> QED BY <1>1, <1>2, <1>3, <1>5, <1>6 DEF TurnInv

(***************************************************************************)
(* The host answers and sends.                                             *)
(***************************************************************************)
LEMMA HostAnswering ==
  ASSUME NEW r \in TurnRecords, NEW t, TurnInv(r, t), r.host = "asked",
         NEW h \in {"running", "refused"}, NEW new, new = [r EXCEPT !.host = h]
  PROVE  new \in TurnRecords /\ new.session = r.session /\ new.pc = r.pc /\ TurnInv(new, t)
<1>1. new \in TurnRecords BY DEF TurnRecords
<1>2. /\ new.pc = r.pc /\ new.got = r.got /\ new.queue = r.queue /\ new.pending = r.pending
      /\ new.sent = r.sent /\ new.wire = r.wire /\ new.failed = r.failed
      /\ new.session = r.session /\ new.hold = r.hold /\ new.host = h
  BY DEF TurnRecords
<1>3. OnItsBridge(new) /\ HoldFollows(new) BY <1>2 DEF TurnInv, OnItsBridge, HoldFollows
<1>4. Delivered(new) = Delivered(r) BY <1>2 DEF Delivered
<1>5. r.sent = <<>> /\ r.pc # "listening" BY DEF TurnInv, SentEnds, KeptIsDelivered
<1>6. SentEnds(new) BY <1>2, <1>5 DEF SentEnds
<1>7. WireIsRest(new) /\ GotIsFirst(new, t)
  BY <1>2, <1>4 DEF TurnInv, WireIsRest, GotIsFirst
<1>8. KeptIsDelivered(new) /\ QueueContinues(new)
  BY <1>2, <1>4, <1>5, ZenonT(60) DEF TurnInv, KeptIsDelivered, QueueContinues
<1> QED BY <1>1, <1>2, <1>3, <1>6, <1>7, <1>8 DEF TurnInv

\* What the host sends next changes nothing of what it sent.
LEMMA Emitting ==
  ASSUME NEW r \in TurnRecords, NEW t, TurnInv(r, t), r.host = "running",
         NEW type \in EventTypes, bridge \in {"tauri", "http"}, NEW new \in TurnRecords,
         /\ new.pc = r.pc /\ new.got = r.got /\ new.queue = r.queue /\ new.pending = r.pending
         /\ new.hold = r.hold /\ new.failed = r.failed
         /\ new.sent = Append(r.sent, type)
         /\ new.host = IF type \in Terminals THEN "done" ELSE r.host
         /\ new.wire = IF bridge = "tauri" THEN Append(r.wire, type) ELSE r.wire
  PROVE  TurnInv(new, t)
<1>1. /\ Len(new.sent) = Len(r.sent) + 1 /\ new.sent[Len(r.sent) + 1] = type
      /\ \A i \in 1 .. Len(r.sent) : new.sent[i] = r.sent[i]
  BY RecordTypes
<1>2. OnItsBridge(new) /\ HoldFollows(new)
  BY DEF TurnInv, OnItsBridge, HoldFollows
<1>3. SentEnds(new)
  <2>1. \A i \in 1 .. Len(r.sent) : r.sent[i] \notin Terminals BY DEF TurnInv, SentEnds
  <2>2. \A i \in 1 .. Len(new.sent) : i \in 1 .. Len(r.sent) \/ i = Len(new.sent)
    BY <1>1, RecordTypes
  <2>3. new.sent[Len(new.sent)] = type BY <1>1
  <2>4. new.host \in {"running", "done"} /\ (type \in Terminals => new.host = "done") OBVIOUS
  <2>5. \A i \in 1 .. Len(new.sent) : new.sent[i] \in Terminals => i = Len(new.sent) /\ new.host = "done"
    BY <1>1, <2>1, <2>2, <2>3, <2>4
  <2>6. new.host \notin {"none", "asked", "refused"} BY <2>4
  <2> QED BY <2>5, <2>6 DEF SentEnds
<1>4. GotIsFirst(new, t)
  <2>1. Len(r.got) <= Len(new.sent) /\ \A i \in 1 .. Len(r.got) : i \in 1 .. Len(r.sent)
    BY <1>1, RecordTypes DEF TurnInv, GotIsFirst
  <2> QED BY <1>1, <2>1 DEF TurnInv, GotIsFirst
<1>5. CASE bridge = "http"
  <2>1. r.wire = <<>> /\ r.pc \in {"fetching", "reading", "ended"}
    BY <1>5 DEF TurnInv, OnItsBridge, HttpPcs
  <2>2. new.wire = <<>> BY <1>5, <2>1
  <2>3. WireIsRest(new)
    <3>1. Len(new.wire) = 0
      <4>1. Len(<<>>) = 0 OBVIOUS
      <4> QED BY <2>2, <4>1, Zenon
    <3>2. Len(new.sent) \in Nat BY RecordTypes
    <3>3. Len(new.wire) <= Len(new.sent) BY <3>1, <3>2
    <3> QED BY <3>1, <3>3 DEF WireIsRest
  <2>4. KeptIsDelivered(new) /\ QueueContinues(new)
    BY <2>1 DEF TurnInv, KeptIsDelivered, QueueContinues
  <2> QED BY <1>2, <1>3, <1>4, <2>3, <2>4 DEF TurnInv
<1>6. CASE bridge = "tauri"
  <2>1. new.wire = Append(r.wire, type) BY <1>6
  <2>2. /\ Len(new.wire) = Len(r.wire) + 1 /\ new.wire[Len(r.wire) + 1] = type
        /\ \A i \in 1 .. Len(r.wire) : new.wire[i] = r.wire[i]
    BY <2>1, RecordTypes
  <2>3. /\ Len(r.wire) <= Len(r.sent)
        /\ \A i \in 1 .. Len(r.wire) : r.wire[i] = r.sent[Delivered(r) + i]
    BY DEF TurnInv, WireIsRest
  <2>4. \A n, w \in Nat : w <= n =>
          /\ (n + 1) - (w + 1) = n - w /\ (n - w) + (w + 1) = n + 1 /\ w + 1 <= n + 1
          /\ n - w \in 0 .. n
          /\ \A i \in 1 .. w : (n - w) + i \in 1 .. n
          /\ \A i \in 1 .. w + 1 : i \in 1 .. w \/ i = w + 1
    OBVIOUS
  <2>5. /\ Delivered(new) = Delivered(r) /\ Delivered(r) + (Len(r.wire) + 1) = Len(r.sent) + 1
        /\ Len(new.wire) <= Len(new.sent) /\ Delivered(r) \in 0 .. Len(r.sent)
        /\ \A i \in 1 .. Len(r.wire) : Delivered(r) + i \in 1 .. Len(r.sent)
        /\ \A i \in 1 .. Len(new.wire) : i \in 1 .. Len(r.wire) \/ i = Len(r.wire) + 1
    <3> DEFINE n == Len(r.sent)
               w == Len(r.wire)
    <3>1. n \in Nat /\ w \in Nat /\ w <= n BY <2>3, RecordTypes
    <3>2. Delivered(r) = n - w /\ Delivered(new) = (n + 1) - (w + 1)
      BY <1>1, <2>2 DEF Delivered
    <3>3. Len(new.wire) = w + 1 /\ Len(new.sent) = n + 1 BY <1>1, <2>2
    <3> HIDE DEF n, w
    <3>4. /\ Delivered(new) = Delivered(r) /\ Delivered(r) + (w + 1) = n + 1
          /\ Len(new.wire) <= Len(new.sent) /\ Delivered(r) \in 0 .. n
          /\ \A i \in 1 .. w : Delivered(r) + i \in 1 .. n
          /\ \A i \in 1 .. Len(new.wire) : i \in 1 .. w \/ i = w + 1
      BY <2>4, <3>1, <3>2, <3>3
    <3> QED BY <3>4 DEF n, w
  <2>6. WireIsRest(new)
    <3>1. \A i \in 1 .. Len(r.wire) : new.wire[i] = new.sent[Delivered(r) + i]
      BY <1>1, <2>2, <2>3, <2>5
    <3>2. new.wire[Len(r.wire) + 1] = new.sent[Delivered(r) + (Len(r.wire) + 1)]
      BY <1>1, <2>2, <2>5
    <3>3. \A i \in 1 .. Len(new.wire) : new.wire[i] = new.sent[Delivered(r) + i]
      BY <2>5, <3>1, <3>2
    <3> QED BY <2>5, <3>3 DEF WireIsRest
  <2>7. KeptIsDelivered(new)
    <3>1. ASSUME r.pc = "starting", ~r.failed
          PROVE  Len(r.pending) = Delivered(r) /\ \A i \in 1 .. Len(r.pending) : new.sent[i] = r.pending[i]
      <4>1. /\ Len(r.pending) = Delivered(r)
            /\ \A i \in 1 .. Len(r.pending) : r.pending[i] = r.sent[i]
        BY <3>1 DEF TurnInv, KeptIsDelivered
      <4>2. \A i \in 1 .. Len(r.pending) : i \in 1 .. Len(r.sent) BY <2>5, <4>1, RecordTypes
      <4> QED BY <1>1, <4>1, <4>2
    <3>2. r.pc # "listening" BY DEF TurnInv, KeptIsDelivered
    <3> QED BY <2>5, <3>1, <3>2 DEF TurnInv, KeptIsDelivered
  <2>8. QueueContinues(new)
    <3>1. ASSUME r.pc = "waiting", ~r.failed
          PROVE  /\ Len(r.got) + Len(r.queue) = Delivered(r)
                 /\ \A i \in 1 .. Len(r.queue) : r.queue[i] = new.sent[Len(r.got) + i]
      <4>1. /\ Len(r.got) + Len(r.queue) = Delivered(r)
            /\ \A i \in 1 .. Len(r.queue) : r.queue[i] = r.sent[Len(r.got) + i]
        BY <3>1 DEF TurnInv, QueueContinues
      <4>2. \A g, q, n \in Nat : g + q \in 0 .. n => \A i \in 1 .. q : g + i \in 1 .. n
        OBVIOUS
      <4>3. \A i \in 1 .. Len(r.queue) : Len(r.got) + i \in 1 .. Len(r.sent)
        BY <2>5, <4>1, <4>2, RecordTypes
      <4> QED BY <1>1, <4>1, <4>3
    <3> QED BY <2>5, <3>1 DEF TurnInv, QueueContinues
  <2> QED BY <1>2, <1>3, <1>4, <2>6, <2>7, <2>8 DEF TurnInv
<1> QED BY <1>5, <1>6

\* A turn begins with nothing.
LEMMA Beginning ==
  ASSUME bridge \in {"tauri", "http"}, active \in Sessions, NEW t, NEW new,
         new = [session |-> active, aborted |-> FALSE, got |-> <<>>, hold |-> "asked",
                pc |-> IF bridge = "tauri" THEN "listening" ELSE "fetching",
                pending |-> <<>>, others |-> 0, queue |-> <<>>, failed |-> FALSE,
                host |-> IF bridge = "tauri" THEN "none" ELSE "asked",
                sent |-> <<>>, wire |-> <<>>]
  PROVE  new \in TurnRecords /\ new.session = active /\ new.pc # "ended" /\ TurnInv(new, t)
<1>1. <<>> \in Seq(EventTypes) /\ <<>> \in Seq([turn : Nat, type : EventTypes]) OBVIOUS
<1>2. new \in TurnRecords BY <1>1 DEF TurnRecords, TauriPcs, HttpPcs
<1>3. /\ new.pc = IF bridge = "tauri" THEN "listening" ELSE "fetching"
      /\ new.host = IF bridge = "tauri" THEN "none" ELSE "asked"
      /\ new.got = <<>> /\ new.pending = <<>> /\ new.queue = <<>> /\ new.sent = <<>> /\ new.wire = <<>>
      /\ new.hold = "asked" /\ new.session = active
  OBVIOUS
<1>4. OnItsBridge(new) /\ HoldFollows(new) BY <1>3 DEF OnItsBridge, HoldFollows, TauriPcs, HttpPcs
<1>5. SentEnds(new) /\ WireIsRest(new) /\ GotIsFirst(new, t)
  BY <1>3 DEF SentEnds, WireIsRest, GotIsFirst, Delivered
<1>6. KeptIsDelivered(new) /\ QueueContinues(new)
  BY <1>3 DEF KeptIsDelivered, QueueContinues
<1> QED BY <1>2, <1>3, <1>4, <1>5, <1>6 DEF TurnInv

(***************************************************************************)
(* The window: every action keeps the invariant.                           *)
(***************************************************************************)
\* A function on 1 .. Len(turn) is a sequence as long as turn.
LEMMA FunctionIsSeq ==
  ASSUME turn \in Seq(TurnRecords), NEW f, f \in [Turns -> TurnRecords]
  PROVE  f \in Seq(TurnRecords) /\ Len(f) = Len(turn) /\ DOMAIN f = Turns
<1>1. Turns = 1 .. Len(turn) /\ Len(turn) \in Nat BY LenIsNat DEF Turns
<1>2. f \in Seq(TurnRecords) BY <1>1
<1>3. DOMAIN f = Turns OBVIOUS
<1>4. DOMAIN f = 1 .. Len(f) /\ Len(f) \in Nat BY <1>2, LenIsNat
<1>5. Len(f) = Len(turn) BY <1>1, <1>3, <1>4
<1> QED BY <1>2, <1>3, <1>5

\* Turns that keep their session and end or run as before.
LEMMA TurnsGoOn ==
  ASSUME WindowInv, UNCHANGED <<bridge, disposed, active, isSubmitting, ctrl>>,
         turn' \in [Turns -> TurnRecords],
         \A u \in Turns : /\ turn'[u].session = turn[u].session
                          /\ turn'[u].pc = "ended" <=> turn[u].pc = "ended"
                          /\ TurnInv(turn'[u], u)
  PROVE  WindowInv'
<1>1. turn' \in Seq(TurnRecords) /\ Len(turn') = Len(turn) /\ Turns' = Turns
  BY FunctionIsSeq DEF WindowInv, WindowTypes, Turns
<1>2. WindowTypes' BY <1>1 DEF WindowInv, WindowTypes
<1>3. OnlyLastRuns' BY <1>1 DEF WindowInv, OnlyLastRuns
<1>4. ButtonIsTheTurn'
  <2>1. ASSUME ~disposed
        PROVE  /\ isSubmitting <=> \E t \in Turns : turn'[t].pc # "ended"
               /\ \A t \in Turns : turn'[t].pc # "ended" => ctrl[turn'[t].session] = t
    <3>1. isSubmitting <=> \E t \in Turns : turn[t].pc # "ended"
      BY <2>1, Zenon DEF WindowInv, ButtonIsTheTurn
    <3>2. (\E t \in Turns : turn[t].pc # "ended") <=> (\E t \in Turns : turn'[t].pc # "ended")
      OBVIOUS
    <3>3. \A t \in Turns : turn'[t].pc # "ended" => ctrl[turn'[t].session] = t
      BY <2>1 DEF WindowInv, ButtonIsTheTurn
    <3> QED BY <3>1, <3>2, <3>3, Zenon
  <2> QED BY <1>1, <2>1, Zenon DEF ButtonIsTheTurn
<1>5. \A t \in Turns' : TurnInv(turn[t], t)'
  <2> SUFFICES ASSUME NEW t \in Turns PROVE TurnInv(turn[t], t)' BY <1>1
  <2>1. TurnInv(turn'[t], t) OBVIOUS
  <2> QED BY <2>1 DEF TurnInv, OnItsBridge, HoldFollows, SentEnds, WireIsRest, Delivered, GotIsFirst,
                      KeptIsDelivered, QueueContinues
<1> QED BY <1>2, <1>3, <1>4, <1>5 DEF WindowInv

LEMMA TurnGoesOn ==
  ASSUME WindowInv, UNCHANGED <<bridge, disposed, active, isSubmitting, ctrl>>,
         NEW t \in Turns, NEW new \in TurnRecords, turn' = [turn EXCEPT ![t] = new],
         new.session = turn[t].session, new.pc = "ended" <=> turn[t].pc = "ended",
         TurnInv(new, t)
  PROVE  WindowInv'
<1>1. turn \in [Turns -> TurnRecords] BY DEF WindowInv, WindowTypes, Turns
<1>2. turn' \in [Turns -> TurnRecords] BY <1>1
<1>3. \A u \in Turns : turn'[u] = IF u = t THEN new ELSE turn[u] BY <1>1
<1>4. \A u \in Turns : /\ turn'[u].session = turn[u].session
                       /\ turn'[u].pc = "ended" <=> turn[u].pc = "ended"
                       /\ TurnInv(turn'[u], u)
  BY <1>3 DEF WindowInv
<1> QED BY <1>2, <1>4, TurnsGoOn

\* The turn that runs ends.
LEMMA TurnEnds ==
  ASSUME WindowInv, NEW t \in Turns, turn[t].pc # "ended",
         NEW got \in Seq([turn : Nat, type : EventTypes]),
         Len(got) <= Len(turn[t].sent),
         \A i \in 1 .. Len(got) : got[i].turn = t /\ got[i].type = turn[t].sent[i],
         NEW list, NEW restore, EndTurn(t, list, got, restore)
  PROVE  WindowInv'
<1> DEFINE s   == turn[t].session
           new == [turn[t] EXCEPT !.pc = "ended", !.got = got, !.hold = Released(@), !.queue = <<>>]
<1>1. turn \in [Turns -> TurnRecords] /\ turn[t] \in TurnRecords /\ TurnInv(turn[t], t)
  BY DEF WindowInv, WindowTypes, Turns
<1>2. new \in TurnRecords /\ new.session = s /\ TurnInv(new, t) /\ new.pc = "ended"
  <2>1. new \in TurnRecords /\ new.session = s /\ TurnInv(new, t) BY <1>1, Ending
  <2>2. new.pc = "ended" BY <1>1 DEF TurnRecords
  <2> QED BY <2>1, <2>2
<1>3. /\ turn' = [turn EXCEPT ![t] = new] /\ ctrl' = [ctrl EXCEPT ![s] = None]
      /\ UNCHANGED <<bridge, disposed, active>>
      /\ ~disposed => isSubmitting' = FALSE
      /\ isSubmitting' \in BOOLEAN
  <2>1. turn' = [turn EXCEPT ![t] = new] BY <1>1 DEF EndTurn, TurnRecords
  <2>2. isSubmitting' = FALSE \/ (disposed /\ isSubmitting' = isSubmitting)
    BY DEF EndTurn, Settled, stateVars
  <2> QED BY <2>1, <2>2 DEF EndTurn, uiVars, WindowInv, WindowTypes
<1> HIDE DEF new
<1>4. turn' \in [Turns -> TurnRecords] BY <1>1, <1>2, <1>3
<1>5. turn' \in Seq(TurnRecords) /\ Len(turn') = Len(turn) /\ Turns' = Turns
  BY <1>4, FunctionIsSeq DEF WindowInv, WindowTypes, Turns
<1>6. \A u \in Turns : turn'[u] = IF u = t THEN new ELSE turn[u] BY <1>1, <1>3
<1>7. \A u \in Turns : turn'[u].pc = "ended"
  <2>1. \A u \in Turns : u # t => turn[u].pc = "ended" BY DEF WindowInv, OnlyLastRuns
  <2> QED BY <1>2, <1>6, <2>1
<1>8. WindowTypes'
  <2>1. ctrl' \in [Sessions -> Turns \cup {None}] BY <1>1, <1>3 DEF WindowInv, WindowTypes
  <2> QED BY <1>3, <1>5, <2>1 DEF WindowInv, WindowTypes
<1>9. OnlyLastRuns' BY <1>5, <1>7 DEF OnlyLastRuns
<1>10. ButtonIsTheTurn' BY <1>3, <1>5, <1>7 DEF ButtonIsTheTurn
<1>11. \A u \in Turns' : TurnInv(turn[u], u)'
  <2> SUFFICES ASSUME NEW u \in Turns PROVE TurnInv(turn[u], u)' BY <1>5
  <2>1. TurnInv(turn'[u], u) BY <1>2, <1>6 DEF WindowInv
  <2> QED BY <1>3, <2>1 DEF TurnInv, OnItsBridge, HoldFollows, SentEnds, WireIsRest, Delivered, GotIsFirst,
                      KeptIsDelivered, QueueContinues
<1> QED BY <1>8, <1>9, <1>10, <1>11 DEF WindowInv

LEMMA TurnTypes ==
  ASSUME WindowInv, NEW t \in Turns
  PROVE  turn[t] \in TurnRecords /\ t \in Nat /\ TurnInv(turn[t], t)
BY DEF WindowInv, WindowTypes, Turns

\* A turn gets an event, and ends with it or goes on.
LEMMA Receiving ==
  ASSUME WindowInv, NEW t \in Turns, Len(turn[t].got) < Len(turn[t].sent),
         NEW type, type = turn[t].sent[Len(turn[t].got) + 1],
         NEW rest \in Seq(EventTypes),
         \/ turn[t].pc = "reading"
         \/ turn[t].pc = "waiting" /\ turn[t].queue # <<>> /\ rest = Tail(turn[t].queue),
         Receive(t, type, rest)
  PROVE  WindowInv'
<1> DEFINE event == [turn |-> t, type |-> type]
           got   == Append(turn[t].got, event)
           list  == IF disposed THEN events ELSE Append(events, event)
<1>1. turn[t] \in TurnRecords /\ t \in Nat /\ TurnInv(turn[t], t) BY TurnTypes
<1>2. /\ got \in Seq([turn : Nat, type : EventTypes])
      /\ Len(got) = Len(turn[t].got) + 1 /\ Len(got) <= Len(turn[t].sent)
      /\ \A i \in 1 .. Len(got) : got[i].turn = t /\ got[i].type = turn[t].sent[i]
  <2> DEFINE old  == turn[t].got
             sent == turn[t].sent
  <2>1. /\ sent \in Seq(EventTypes) /\ old \in Seq([turn : Nat, type : EventTypes]) /\ Len(old) < Len(sent)
        /\ event = [turn |-> t, type |-> sent[Len(old) + 1]]
    BY <1>1, RecordTypes
  <2>2. Begins(old, sent, t) BY <1>1 DEF TurnInv, GotIsFirst, Begins
  <2>3. /\ Append(old, event) \in Seq([turn : Nat, type : EventTypes])
        /\ Len(Append(old, event)) = Len(old) + 1 /\ Len(Append(old, event)) <= Len(sent)
        /\ Begins(Append(old, event), sent, t)
    <3> HIDE DEF old, sent, event
    <3> QED BY <1>1, <2>1, <2>2, GotGrows, ZenonT(60)
  <2> QED BY <2>3 DEF Begins
<1>3. turn[t].pc # "ended" OBVIOUS
<1>4. CASE type \in Terminals
  <2>1. EndTurn(t, list, got, type = "error") BY <1>4 DEF Receive
  <2> HIDE DEF got, list
  <2> QED BY <1>2, <1>3, <2>1, TurnEnds
<1>5. CASE type \notin Terminals
  <2> DEFINE new == [turn[t] EXCEPT !.got = got, !.queue = rest]
  <2>1. new \in TurnRecords /\ new.session = turn[t].session /\ TurnInv(new, t)
    <3> HIDE DEF got
    <3> QED BY <1>1, <1>2, Continuing
  <2>2. new.pc = turn[t].pc BY <1>1 DEF TurnRecords
  <2>3. /\ turn' = [turn EXCEPT ![t] = new]
        /\ UNCHANGED <<bridge, disposed, active, isSubmitting, ctrl>>
    BY <1>1, <1>5 DEF Receive, uiVars, TurnRecords
  <2> HIDE DEF new
  <2> QED BY <2>1, <2>2, <2>3, TurnGoesOn
<1> QED BY <1>4, <1>5

\* A turn ends with what it has got so far.
LEMMA Stopping ==
  ASSUME WindowInv, NEW t \in Turns, turn[t].pc # "ended",
         NEW restore, EndTurn(t, events, turn[t].got, restore)
  PROVE  WindowInv'
<1>1. turn[t] \in TurnRecords /\ TurnInv(turn[t], t) BY TurnTypes
<1>2. /\ turn[t].got \in Seq([turn : Nat, type : EventTypes])
      /\ Len(turn[t].got) <= Len(turn[t].sent)
      /\ \A i \in 1 .. Len(turn[t].got) :
           turn[t].got[i].turn = t /\ turn[t].got[i].type = turn[t].sent[i]
  BY <1>1, RecordTypes DEF TurnInv, GotIsFirst
<1> QED BY <1>2, TurnEnds

\* An event is accepted and leaves the wire.
LEMMA ThenLeavesWire ==
  ASSUME NEW r \in TurnRecords, NEW type, NEW new, NEW a, new = [a EXCEPT !.wire = Tail(@)]
  PROVE  /\ a = [r EXCEPT !.failed = TRUE] => new = [r EXCEPT !.failed = TRUE, !.wire = Tail(@)]
         /\ a = [r EXCEPT !.pending = Append(@, type)]
              => new = [r EXCEPT !.pending = Append(@, type), !.wire = Tail(@)]
         /\ a = [r EXCEPT !.queue = Append(@, type)]
              => new = [r EXCEPT !.queue = Append(@, type), !.wire = Tail(@)]
<1>1. ASSUME a = [r EXCEPT !.failed = TRUE] PROVE new = [r EXCEPT !.failed = TRUE, !.wire = Tail(@)]
  BY <1>1 DEF TurnRecords
<1>2. ASSUME a = [r EXCEPT !.pending = Append(@, type)]
      PROVE  new = [r EXCEPT !.pending = Append(@, type), !.wire = Tail(@)]
  BY <1>2 DEF TurnRecords
<1>3. ASSUME a = [r EXCEPT !.queue = Append(@, type)]
      PROVE  new = [r EXCEPT !.queue = Append(@, type), !.wire = Tail(@)]
  BY <1>3 DEF TurnRecords
<1> QED BY <1>1, <1>2, <1>3, Zenon

\* Every listener takes the event its own way.
LEMMA Delivering ==
  ASSUME WindowInv, NEW u \in Turns, Deliver(u)
  PROVE  WindowInv'
<1> DEFINE type   == Head(turn[u].wire)
           new(t) == [Accept(t, u, type) EXCEPT !.wire = IF t = u THEN Tail(@) ELSE @]
<1>1. turn[u].wire # <<>> /\ Calm BY DEF Deliver
<1>2. ASSUME NEW t \in Turns
      PROVE  /\ new(t) \in TurnRecords /\ new(t).session = turn[t].session
             /\ new(t).pc = turn[t].pc /\ TurnInv(new(t), t)
  <2> DEFINE r == turn[t]
  <2>1. r \in TurnRecords /\ TurnInv(r, t) BY TurnTypes
  <2>2. CASE t = u
    <3>1. new(t) = [Accept(t, t, type) EXCEPT !.wire = Tail(@)] BY <2>2
    <3>2. r.wire # <<>> /\ type = Head(r.wire) BY <1>1, <2>2
    <3>3. ~(r.pc = "waiting" /\ r.failed) BY <1>1 DEF Calm, Pulls
    <3>4. bridge # "http" BY <2>1, <3>2 DEF TurnInv, OnItsBridge
    <3>5. /\ r.pc \in {"listening", "starting", "waiting", "ended"}
          /\ r.hold # "on" => r.pc \in {"listening", "ended"}
      BY <2>1, <3>4 DEF TurnInv, OnItsBridge, HoldFollows, WindowInv, WindowTypes, TauriPcs
    <3>6. \/ r.pc \in {"listening", "ended"} /\ new(t) = [r EXCEPT !.wire = Tail(@)]
          \/ r.pc = "starting" /\ new(t) = [r EXCEPT !.failed = TRUE, !.wire = Tail(@)]
          \/ r.pc = "starting" /\ new(t) = [r EXCEPT !.pending = Append(@, type), !.wire = Tail(@)]
          \/ r.pc = "waiting" /\ new(t) = [r EXCEPT !.queue = Append(@, type), !.wire = Tail(@)]
      <4>1. CASE r.hold # "on" \/ r.pc = "ended"
        <5>1. Accept(t, t, type) = r BY <4>1 DEF Accept
        <5> QED BY <3>1, <3>5, <4>1, <5>1
      <4>2. CASE r.hold = "on" /\ r.pc = "starting"
        <5>1. \/ Accept(t, t, type) = [r EXCEPT !.failed = TRUE]
              \/ Accept(t, t, type) = [r EXCEPT !.pending = Append(@, type)]
          BY <4>2 DEF Accept
        <5> DEFINE a == Accept(t, t, type)
        <5> HIDE DEF a
        <5>2. new(t) = [a EXCEPT !.wire = Tail(@)] BY <3>1 DEF a
        <5> HIDE DEF new, type, r
        <5>3. a = [r EXCEPT !.failed = TRUE] \/ a = [r EXCEPT !.pending = Append(@, type)]
          BY <5>1 DEF a
        <5>4. \/ new(t) = [r EXCEPT !.failed = TRUE, !.wire = Tail(@)]
              \/ new(t) = [r EXCEPT !.pending = Append(@, type), !.wire = Tail(@)]
          BY <2>1, <5>2, <5>3, ThenLeavesWire, ZenonT(60)
        <5> QED BY <4>2, <5>4, Zenon
      <4>3. CASE r.hold = "on" /\ r.pc = "waiting"
        <5> DEFINE a == Accept(t, t, type)
        <5>1. a = [r EXCEPT !.queue = Append(@, type)] BY <4>3 DEF Accept
        <5> HIDE DEF a
        <5>2. new(t) = [a EXCEPT !.wire = Tail(@)] BY <3>1 DEF a
        <5> HIDE DEF new, type, r
        <5>3. new(t) = [r EXCEPT !.queue = Append(@, type), !.wire = Tail(@)]
          BY <2>1, <5>1, <5>2, ThenLeavesWire, ZenonT(60)
        <5> QED BY <4>3, <5>3, Zenon
      <4>4. r.hold = "on" => r.pc # "listening" BY <2>1 DEF TurnInv, HoldFollows
      <4> QED BY <3>5, <4>1, <4>2, <4>3, <4>4
    <3> HIDE DEF new, r, type
    <3>7. new(t) \in TurnRecords /\ new(t).session = r.session /\ new(t).pc = r.pc /\ TurnInv(new(t), t)
      BY <2>1, <3>2, <3>3, <3>6, AcceptingOwn
    <3> QED BY <3>7 DEF r
  <2>3. CASE t # u
    <3>1. \/ Accept(t, u, type) = r
          \/ r.pc = "starting" /\ Accept(t, u, type) = [r EXCEPT !.failed = TRUE]
          \/ r.pc = "starting" /\ Accept(t, u, type) = [r EXCEPT !.others = @ + 1]
      BY <2>3 DEF Accept
    <3>2. Accept(t, u, type) \in TurnRecords /\ Accept(t, u, type).session = r.session
          /\ Accept(t, u, type).pc = r.pc /\ TurnInv(Accept(t, u, type), t)
      <4> DEFINE a == Accept(t, u, type)
      <4>1. /\ r \in TurnRecords /\ TurnInv(r, t)
            /\ \/ a = r
               \/ r.pc = "starting" /\ a = [r EXCEPT !.failed = TRUE]
               \/ r.pc = "starting" /\ a = [r EXCEPT !.others = @ + 1]
        BY <2>1, <3>1
      <4> HIDE DEF a, r
      <4>2. a \in TurnRecords /\ a.session = r.session /\ a.pc = r.pc /\ TurnInv(a, t)
        BY <4>1, AcceptingOther
      <4> QED BY <4>2 DEF a
    <3>3. new(t) = Accept(t, u, type)
      <4>1. new(t) = [Accept(t, u, type) EXCEPT !.wire = @] BY <2>3
      <4> QED BY <3>2, <4>1 DEF TurnRecords
    <3> QED BY <3>2, <3>3
  <2> QED BY <2>2, <2>3
<1>3. turn' = [t \in Turns |-> new(t)] BY DEF Deliver
<1>4. UNCHANGED <<bridge, disposed, active, isSubmitting, ctrl>> BY DEF Deliver, uiVars, stateVars
<1> HIDE DEF new
<1>5. turn' \in [Turns -> TurnRecords] BY <1>2, <1>3
<1>6. \A t \in Turns : /\ turn'[t].session = turn[t].session
                       /\ turn'[t].pc = "ended" <=> turn[t].pc = "ended"
                       /\ TurnInv(turn'[t], t)
  <2> SUFFICES ASSUME NEW t \in Turns
               PROVE  /\ turn'[t].session = turn[t].session
                      /\ turn'[t].pc = "ended" <=> turn[t].pc = "ended"
                      /\ TurnInv(turn'[t], t)
    OBVIOUS
  <2>1. turn'[t] = new(t) BY <1>3
  <2> QED BY <1>2, <2>1
<1> QED BY <1>4, <1>5, <1>6, TurnsGoOn

\* What leaves the turns, the button and the controllers alone.
LEMMA Aside ==
  ASSUME WindowInv, UNCHANGED <<bridge, disposed, isSubmitting, ctrl, turn>>,
         active' \in Sessions \cup {None}
  PROVE  WindowInv'
<1>1. WindowTypes' BY DEF WindowInv, WindowTypes, Turns
<1>2. OnlyLastRuns' BY DEF WindowInv, OnlyLastRuns, Turns
<1>3. ButtonIsTheTurn' BY Zenon DEF WindowInv, ButtonIsTheTurn, Turns
<1>4. \A t \in Turns' : TurnInv(turn[t], t)'
  <2> SUFFICES ASSUME NEW t \in Turns PROVE TurnInv(turn[t], t)' BY DEF Turns
  <2>1. TurnInv(turn[t], t) BY DEF WindowInv
  <2> QED BY <2>1 DEF TurnInv, OnItsBridge, HoldFollows, SentEnds, WireIsRest, Delivered, GotIsFirst,
                      KeptIsDelivered, QueueContinues
<1> QED BY <1>1, <1>2, <1>3, <1>4 DEF WindowInv

\* A turn is sent: the button was free, so no other runs.
LEMMA Sending ==
  ASSUME WindowInv, Send
  PROVE  WindowInv'
<1> DEFINE new == [session |-> active, aborted |-> FALSE, got |-> <<>>, hold |-> "asked",
                   pc |-> IF bridge = "tauri" THEN "listening" ELSE "fetching",
                   pending |-> <<>>, others |-> 0, queue |-> <<>>, failed |-> FALSE,
                   host |-> IF bridge = "tauri" THEN "none" ELSE "asked",
                   sent |-> <<>>, wire |-> <<>>]
<1>1. /\ turn' = Append(turn, new) /\ ctrl' = [ctrl EXCEPT ![active] = Len(turn')]
      /\ isSubmitting' = TRUE /\ UNCHANGED <<bridge, disposed, active>>
      /\ ~disposed /\ ~isSubmitting
  BY DEF Send, Ui, CanSend, uiVars
<1>2. /\ active \in Sessions /\ turn \in Seq(TurnRecords) /\ bridge \in {"tauri", "http"}
      /\ ctrl \in [Sessions -> Turns \cup {None}]
  BY DEF Send, WindowInv, WindowTypes
<1>3. new \in TurnRecords /\ new.session = active /\ new.pc # "ended" /\ \A t : TurnInv(new, t)
  BY <1>2, Beginning
<1>4. \A t \in Turns : turn[t].pc = "ended"
  BY <1>1 DEF WindowInv, ButtonIsTheTurn
<1> DEFINE n == Len(turn) + 1
<1> HIDE DEF new
<1>5. /\ turn' \in Seq(TurnRecords) /\ Len(turn') = n /\ Turns' = Turns \cup {n} /\ n \notin Turns
      /\ turn'[n] = new /\ \A t \in Turns : turn'[t] = turn[t]
  BY <1>1, <1>2, <1>3 DEF Turns
<1> HIDE DEF n
<1>6. WindowTypes'
  <2>1. ctrl' \in [Sessions -> Turns' \cup {None}] BY <1>1, <1>2, <1>5
  <2> QED BY <1>1, <1>5, <2>1 DEF WindowInv, WindowTypes
<1>7. OnlyLastRuns' BY <1>4, <1>5 DEF OnlyLastRuns
<1>8. ButtonIsTheTurn'
  <2>1. \E t \in Turns' : turn'[t].pc # "ended" BY <1>3, <1>5
  <2>2. ctrl'[active] = n BY <1>1, <1>2, <1>5
  <2>3. \A t \in Turns' : turn'[t].pc # "ended" => ctrl'[turn'[t].session] = t
    BY <1>3, <1>4, <1>5, <2>2
  <2> QED BY <1>1, <2>1, <2>3 DEF ButtonIsTheTurn
<1>9. \A t \in Turns' : TurnInv(turn[t], t)'
  <2> SUFFICES ASSUME NEW t \in Turns' PROVE TurnInv(turn[t], t)' OBVIOUS
  <2>1. TurnInv(turn'[t], t) BY <1>3, <1>5 DEF WindowInv
  <2> QED BY <1>1, <2>1 DEF TurnInv, OnItsBridge, HoldFollows, SentEnds, WireIsRest, Delivered, GotIsFirst,
                      KeptIsDelivered, QueueContinues
<1> QED BY <1>6, <1>7, <1>8, <1>9 DEF WindowInv

\* The window closes: every turn that has its controller is aborted.
LEMMA Unmounting ==
  ASSUME WindowInv, Unmount
  PROVE  WindowInv'
<1> DEFINE b(t)   == turn[t].aborted \/ ctrl[turn[t].session] = t
           new(t) == [turn[t] EXCEPT !.aborted = @ \/ ctrl[turn[t].session] = t]
<1>1. ASSUME NEW t \in Turns
      PROVE  /\ new(t) \in TurnRecords /\ new(t).session = turn[t].session
             /\ new(t).pc = turn[t].pc /\ TurnInv(new(t), t)
  <2> DEFINE r == turn[t]
             a == new(t)
  <2>1. r \in TurnRecords /\ TurnInv(r, t) BY TurnTypes
  <2>2. b(t) \in BOOLEAN OBVIOUS
  <2>3. new(t) = [r EXCEPT !.aborted = b(t)] BY <2>1 DEF TurnRecords
  <2>4. \E x \in BOOLEAN : a = [r EXCEPT !.aborted = x] BY <2>2, <2>3
  <2> HIDE DEF r, a
  <2>5. a \in TurnRecords /\ a.session = r.session /\ a.pc = r.pc /\ TurnInv(a, t)
    BY <2>1, <2>4, Marking
  <2> QED BY <2>5 DEF r, a
<1>2. /\ turn' = [t \in Turns |-> new(t)] /\ disposed' = TRUE
      /\ ctrl' = [s \in Sessions |-> None] /\ UNCHANGED <<bridge, active, isSubmitting>>
  BY DEF Unmount, uiVars, stateVars
<1> HIDE DEF new
<1>3. turn' \in [Turns -> TurnRecords] BY <1>1, <1>2
<1>4. turn' \in Seq(TurnRecords) /\ Len(turn') = Len(turn) /\ Turns' = Turns
  BY <1>3, FunctionIsSeq DEF WindowInv, WindowTypes, Turns
<1>5. \A t \in Turns : turn'[t] = new(t) BY <1>2
<1>6. WindowTypes' BY <1>2, <1>4 DEF WindowInv, WindowTypes
<1>7. OnlyLastRuns' BY <1>1, <1>4, <1>5 DEF WindowInv, OnlyLastRuns
<1>8. ButtonIsTheTurn' BY <1>2 DEF ButtonIsTheTurn
<1>9. \A t \in Turns' : TurnInv(turn[t], t)'
  <2> SUFFICES ASSUME NEW t \in Turns PROVE TurnInv(turn[t], t)' BY <1>4
  <2>1. TurnInv(turn'[t], t) BY <1>1, <1>5
  <2> QED BY <1>2, <2>1 DEF TurnInv, OnItsBridge, HoldFollows, SentEnds, WireIsRest, Delivered, GotIsFirst,
                      KeptIsDelivered, QueueContinues
<1> QED BY <1>6, <1>7, <1>8, <1>9 DEF WindowInv

LEMMA InitInv == Init => WindowInv
<1> SUFFICES ASSUME Init PROVE WindowInv OBVIOUS
<1>1. turn = <<>> /\ Turns = {} BY DEF Init, Turns
<1>2. <<>> \in Seq(TurnRecords) OBVIOUS
<1>3. WindowTypes BY <1>1, <1>2 DEF Init, WindowTypes
<1>4. OnlyLastRuns BY <1>1 DEF OnlyLastRuns
<1>5. ButtonIsTheTurn BY <1>1 DEF Init, ButtonIsTheTurn
<1> QED BY <1>1, <1>3, <1>4, <1>5 DEF WindowInv

\* One turn changes and goes on: what is left to show of such an action.
LEMMA Becomes ==
  ASSUME WindowInv, NEW t \in Turns, NEW new,
         new \in TurnRecords /\ new.session = turn[t].session /\ TurnInv(new, t),
         new.pc = "ended" <=> turn[t].pc = "ended",
         turn' = [turn EXCEPT ![t] = new], UNCHANGED <<bridge, disposed, uiVars, stateVars, ctrl>>
  PROVE  WindowInv'
BY TurnGoesOn DEF uiVars, stateVars

LEMMA NextInv == WindowInv /\ [Next]_vars => WindowInv'
<1> SUFFICES ASSUME WindowInv, [Next]_vars PROVE WindowInv' OBVIOUS
<1>1. CASE UNCHANGED vars
  BY <1>1, Aside DEF vars, uiVars, stateVars, WindowInv, WindowTypes
<1>2. CASE Connect \/ LoadAnswers \/ NewSession \/ CreateFails \/ DraftInput
  BY <1>2, Aside DEF Connect, LoadAnswers, NewSession, CreateFails, DraftInput, uiVars, stateVars,
                     WindowInv, WindowTypes
<1>3. ASSUME NEW s \in Sessions, SessionCreated(s) \/ SessionClick(s) PROVE WindowInv'
  BY <1>3, Aside DEF SessionCreated, SessionClick, Show
<1>4. CASE Send BY <1>4, Sending
<1>5. CASE Cancel
  <2> DEFINE t   == ctrl[active]
             new == [turn[t] EXCEPT !.aborted = TRUE]
  <2>1. t \in Turns BY <1>5 DEF Cancel, WindowInv, WindowTypes
  <2>2. turn[t] \in TurnRecords /\ TurnInv(turn[t], t) BY <2>1, TurnTypes
  <2>3. \E x \in BOOLEAN : new = [turn[t] EXCEPT !.aborted = x] OBVIOUS
  <2>4. turn' = [turn EXCEPT ![t] = new] /\ UNCHANGED <<bridge, disposed, uiVars, stateVars, ctrl>>
    BY <1>5 DEF Cancel
  <2> HIDE DEF t, new
  <2>5. new \in TurnRecords /\ new.session = turn[t].session /\ new.pc = turn[t].pc /\ TurnInv(new, t)
    BY <2>2, <2>3, Marking
  <2> QED BY <2>1, <2>4, <2>5, Becomes
<1>6. CASE Unmount BY <1>6, Unmounting
<1>7. ASSUME NEW t \in Turns, AbortSettles(t) PROVE WindowInv'
  BY <1>7, Stopping DEF AbortSettles, Aborting, Raced
<1>8. ASSUME NEW t \in Turns, Pull(t) PROVE WindowInv'
  <2>1. turn[t] \in TurnRecords /\ TurnInv(turn[t], t) BY TurnTypes
  <2>2. turn[t].pc = "waiting" BY <1>8 DEF Pull, Pulls
  <2>3. CASE turn[t].queue # <<>> /\ Receive(t, Head(turn[t].queue), Tail(turn[t].queue))
    <3>1. Len(turn[t].got) < Len(turn[t].sent) /\ Head(turn[t].queue) = turn[t].sent[Len(turn[t].got) + 1]
      BY <2>1, <2>2, <2>3, QueueHead
    <3>2. Tail(turn[t].queue) \in Seq(EventTypes) BY <2>1, <2>3, RecordTypes
    <3> QED BY <2>2, <2>3, <3>1, <3>2, Receiving
  <2>4. CASE Fails(t) BY <2>2, <2>4, Stopping DEF Fails
  <2> QED BY <1>8, <2>3, <2>4 DEF Pull
<1>9. ASSUME NEW t \in Turns, ListenAnswers(t) \/ FetchAnswers(t) PROVE WindowInv'
  <2>1. turn[t] \in TurnRecords /\ TurnInv(turn[t], t) BY TurnTypes
  <2>2. CASE turn[t].pc = "ended"
    <3> DEFINE new == [turn[t] EXCEPT !.hold = "released"]
    <3>1. turn' = [turn EXCEPT ![t] = new] /\ UNCHANGED <<bridge, disposed, uiVars, stateVars, ctrl>>
      BY <1>9, <2>2 DEF ListenAnswers, FetchAnswers, LateHold
    <3>2. new = [turn[t] EXCEPT !.hold = "released"] OBVIOUS
    <3> HIDE DEF new
    <3>3. new \in TurnRecords /\ new.session = turn[t].session /\ new.pc = turn[t].pc /\ TurnInv(new, t)
      BY <2>1, <2>2, <3>2, Marking
    <3> QED BY <3>1, <3>3, Becomes
  <2>3. CASE turn[t].pc # "ended"
    <3>1. PICK new : /\ turn' = [turn EXCEPT ![t] = new]
                     /\ \/ /\ turn[t].pc = "listening"
                           /\ new = [turn[t] EXCEPT !.hold = "on", !.pc = "starting", !.host = "asked"]
                        \/ /\ turn[t].pc = "fetching"
                           /\ new = [turn[t] EXCEPT !.hold = "on", !.pc = "reading"]
      BY <1>9, <2>3 DEF ListenAnswers, FetchAnswers
    <3>2. /\ turn[t].hold = "asked" /\ UNCHANGED <<bridge, disposed, uiVars, stateVars, ctrl>>
      BY <1>9 DEF ListenAnswers, FetchAnswers
    <3>3. new \in TurnRecords /\ new.session = turn[t].session /\ new.pc # "ended" /\ TurnInv(new, t)
      BY <2>1, <3>1, <3>2, Holding
    <3> QED BY <2>3, <3>1, <3>2, <3>3, Becomes
  <2> QED BY <2>2, <2>3
<1>10. ASSUME NEW t \in Turns, StartAnswers(t) PROVE WindowInv'
  <2>1. turn[t] \in TurnRecords /\ TurnInv(turn[t], t) BY TurnTypes
  <2> DEFINE new == [turn[t] EXCEPT !.pc = "waiting", !.pending = <<>>, !.others = 0,
                       !.queue = IF turn[t].failed THEN <<>> ELSE Pushed(turn[t].pending)]
  <2>2. /\ turn' = [turn EXCEPT ![t] = new] /\ turn[t].pc = "starting"
        /\ UNCHANGED <<bridge, disposed, uiVars, stateVars, ctrl>>
    BY <1>10 DEF StartAnswers, Kept
  <2>3. new = [turn[t] EXCEPT !.pc = "waiting", !.pending = <<>>, !.others = 0,
                 !.queue = IF turn[t].failed THEN <<>> ELSE Pushed(turn[t].pending)]
    OBVIOUS
  <2> HIDE DEF new
  <2>4. new \in TurnRecords /\ new.session = turn[t].session /\ new.pc # "ended" /\ TurnInv(new, t)
    BY <2>1, <2>2, <2>3, Starting, ZenonT(60)
  <2> QED BY <2>2, <2>4, Becomes
<1>11. ASSUME NEW t \in Turns, RegistrationFails(t) \/ StartFails(t) \/ FetchFails(t) PROVE WindowInv'
  <2>1. ASSUME turn[t].pc \in {"listening", "starting", "fetching", "reading"}, Fails(t)
        PROVE  WindowInv'
    BY <2>1, Stopping DEF Fails
  <2>2. CASE RegistrationFails(t) BY <2>1, <2>2 DEF RegistrationFails
  <2>3. CASE StartFails(t) BY <2>1, <2>3 DEF StartFails
  <2>4. CASE FetchFails(t) BY <2>1, <2>4 DEF FetchFails
  <2> QED BY <1>11, <2>2, <2>3, <2>4
<1>12. ASSUME NEW t \in Turns, Deliver(t) PROVE WindowInv'
  BY <1>12, Delivering
<1>13. ASSUME NEW t \in Turns, BodyLine(t) PROVE WindowInv'
  <2>1. <<>> \in Seq(EventTypes) OBVIOUS
  <2> QED BY <1>13, <2>1, Receiving DEF BodyLine
<1>14. ASSUME NEW t \in Turns, HostStarts(t) \/ HostRefuses(t) PROVE WindowInv'
  <2>1. turn[t] \in TurnRecords /\ TurnInv(turn[t], t) BY TurnTypes
  <2>2. /\ turn[t].host = "asked" /\ UNCHANGED <<bridge, disposed, uiVars, stateVars, ctrl>>
        /\ \E h \in {"running", "refused"} : turn' = [turn EXCEPT ![t].host = h]
    BY <1>14 DEF HostStarts, HostRefuses
  <2>3. PICK h \in {"running", "refused"} : turn' = [turn EXCEPT ![t].host = h] BY <2>2
  <2> DEFINE new == [turn[t] EXCEPT !.host = h]
  <2>4. new = [turn[t] EXCEPT !.host = h] OBVIOUS
  <2>5. turn' = [turn EXCEPT ![t] = new] BY <2>3
  <2> HIDE DEF new
  <2>6. new \in TurnRecords /\ new.session = turn[t].session /\ new.pc = turn[t].pc /\ TurnInv(new, t)
    BY <2>1, <2>2, <2>4, HostAnswering
  <2> QED BY <2>2, <2>5, <2>6, Becomes
<1>15. ASSUME NEW t \in Turns, NEW type \in EventTypes, HostEmits(t, type) PROVE WindowInv'
  <2> DEFINE r    == turn[t]
             host == IF type \in Terminals THEN "done" ELSE r.host
             wire == IF bridge = "tauri" THEN Append(r.wire, type) ELSE r.wire
             new  == [r EXCEPT !.sent = Append(@, type), !.host = host, !.wire = wire]
  <2>1. r \in TurnRecords /\ TurnInv(r, t) /\ bridge \in {"tauri", "http"}
    BY TurnTypes DEF WindowInv, WindowTypes
  <2>2. /\ turn' = [turn EXCEPT ![t] = new] /\ r.host = "running"
        /\ UNCHANGED <<bridge, disposed, uiVars, stateVars, ctrl>>
    BY <1>15, <2>1 DEF HostEmits, TurnRecords
  <2>3. new \in TurnRecords /\ new.session = r.session /\ new.pc = r.pc /\ TurnInv(new, t)
    <3>1. /\ Append(r.sent, type) \in Seq(EventTypes) /\ Append(r.wire, type) \in Seq(EventTypes)
          /\ r.wire \in Seq(EventTypes)
      BY <2>1, RecordTypes
    <3>2. wire \in Seq(EventTypes) BY <3>1
    <3>3. host \in {"none", "asked", "running", "refused", "done"} BY <2>1 DEF TurnRecords
    <3>4. new \in TurnRecords
      <4> HIDE DEF host, wire
      <4> QED BY <2>1, <3>1, <3>2, <3>3 DEF TurnRecords
    <3>5. /\ new.pc = r.pc /\ new.got = r.got /\ new.queue = r.queue /\ new.pending = r.pending
          /\ new.hold = r.hold /\ new.failed = r.failed /\ new.session = r.session
          /\ new.sent = Append(r.sent, type) /\ new.host = host /\ new.wire = wire
      <4> HIDE DEF host, wire
      <4> QED BY <2>1 DEF TurnRecords
    <3>6. r.host = "running" BY <2>2
    <3> HIDE DEF r, new
    <3> QED BY <2>1, <3>4, <3>5, <3>6, Emitting
  <2> HIDE DEF new
  <2> QED BY <2>2, <2>3, Becomes
<1>16. ASSUME NEW t \in Turns,
              \/ AbortSettles(t) \/ Pull(t)
              \/ ListenAnswers(t) \/ RegistrationFails(t)
              \/ StartAnswers(t) \/ StartFails(t) \/ Deliver(t)
              \/ FetchAnswers(t) \/ FetchFails(t) \/ BodyLine(t)
              \/ HostStarts(t) \/ HostRefuses(t)
              \/ \E type \in Terminals \cup {"delta"} : HostEmits(t, type)
       PROVE  WindowInv'
  BY <1>16, <1>7, <1>8, <1>9, <1>10, <1>11, <1>12, <1>13, <1>14, <1>15, Zenon DEF EventTypes
<1> QED BY <1>1, <1>2, <1>3, <1>4, <1>5, <1>6, <1>16 DEF Next

LEMMA Invariance == Spec => []WindowInv
<1> QED BY InitInv, NextInv, PTL DEF Spec

\* A turn gets exactly the events the host sent for it, in their order and
\* without a gap, for any number of turns and sessions, however early or late
\* the events come and however many are kept (tauri-api-client.ts: pending and
\* acceptEvent; local-api-client.ts).
THEOREM EventsArriveExactly == Spec => []DeliveryExact
<1>1. ASSUME WindowInv, NEW t \in Turns
      PROVE  /\ \A i \in DOMAIN turn[t].got : turn[t].got[i].turn = t
             /\ IsPrefix(Types(turn[t].got), turn[t].sent)
             /\ turn[t].pc = "waiting" /\ ~turn[t].failed /\ turn[t].wire = <<>> /\ turn[t].queue = <<>>
                  => Types(turn[t].got) = turn[t].sent
  <2> DEFINE got  == turn[t].got
             sent == turn[t].sent
  <2>1. turn[t] \in TurnRecords /\ TurnInv(turn[t], t) BY <1>1, TurnTypes
  <2>2. /\ got \in Seq([turn : Nat, type : EventTypes]) /\ sent \in Seq(EventTypes)
        /\ Len(got) \in Nat /\ Len(sent) \in Nat
    BY <2>1, RecordTypes
  <2>3. /\ Len(got) <= Len(sent)
        /\ \A i \in 1 .. Len(got) : got[i].turn = t /\ got[i].type = sent[i]
    BY <2>1 DEF TurnInv, GotIsFirst
  <2>4. ASSUME turn[t].pc = "waiting", ~turn[t].failed, turn[t].wire = <<>>, turn[t].queue = <<>>
        PROVE  Len(got) = Len(sent)
    <3>1. Len(turn[t].got) + Len(turn[t].queue) = Len(turn[t].sent) - Len(turn[t].wire)
      BY <2>1, <2>4 DEF TurnInv, QueueContinues, Delivered
    <3>2. Len(turn[t].queue) = 0 /\ Len(turn[t].wire) = 0 BY <2>4
    <3> QED BY <2>2, <3>1, <3>2
  <2> HIDE DEF got, sent
  <2>5. Types(got) \in Seq(EventTypes) /\ Len(Types(got)) = Len(got)
        /\ \A i \in 1 .. Len(got) : Types(got)[i] = sent[i]
    BY <2>2, <2>3, SMTT(30) DEF Types
  <2>6. IsPrefix(Types(got), sent) BY <2>2, <2>3, <2>5 DEF IsPrefix
  <2>7. Len(got) = Len(sent) => Types(got) = sent BY <2>2, <2>5
  <2>8. \A i \in DOMAIN got : got[i].turn = t BY <2>2, <2>3
  <2> QED BY <2>4, <2>6, <2>7, <2>8 DEF got, sent
<1>2. WindowInv => DeliveryExact BY <1>1 DEF DeliveryExact
<1> QED BY <1>2, Invariance, PTL

\* A turn that has ended holds no listener and no response, also one that came
\* after its end (tauri-api-client.ts: the finally of streamEvents and what
\* follows a late listen; local-api-client.ts: the late response is released).
THEOREM EndedTurnsRelease == Spec => []NothingLeftBehind
<1>1. WindowInv => NothingLeftBehind
  BY DEF WindowInv, TurnInv, HoldFollows, NothingLeftBehind
<1> QED BY <1>1, Invariance, PTL

\* While the window is open at most one turn runs, the cancel button is shown
\* exactly then, and its session's abort controller is the turn's own
\* (controller.ts: submitTurn; ui.ts: handleSend).
THEOREM ButtonBelongsToTheTurn == Spec => []SubmittingIsTheTurn
<1>1. ASSUME WindowInv, ~disposed
      PROVE  LET running == {t \in Turns : turn[t].pc # "ended"}
             IN  /\ Cardinality(running) <= 1
                 /\ isSubmitting <=> running # {}
                 /\ \A t \in running : ctrl[turn[t].session] = t
  <2> DEFINE running == {t \in Turns : turn[t].pc # "ended"}
  <2>1. \A t \in running : t = Len(turn) BY <1>1 DEF WindowInv, OnlyLastRuns
  <2>2. Cardinality(running) <= 1
    <3>1. CASE running = {} BY <3>1, FS_EmptySet
    <3>2. CASE running # {}
      <4>1. running = {Len(turn)} BY <2>1, <3>2
      <4>2. Cardinality({Len(turn)}) = 1 BY FS_Singleton
      <4> HIDE DEF running
      <4> QED BY <4>1, <4>2
    <3> QED BY <3>1, <3>2
  <2>3. \A t \in running : ctrl[turn[t].session] = t BY <1>1 DEF WindowInv, ButtonIsTheTurn
  <2>4. isSubmitting <=> \E t \in Turns : turn[t].pc # "ended"
    BY <1>1, Zenon DEF WindowInv, ButtonIsTheTurn
  <2>5. (\E t \in Turns : turn[t].pc # "ended") <=> running # {} OBVIOUS
  <2>6. isSubmitting <=> running # {} BY <2>4, <2>5, Zenon
  <2> QED BY <2>2, <2>3, <2>6, Zenon
<1>2. WindowInv => SubmittingIsTheTurn BY <1>1, Zenon DEF SubmittingIsTheTurn
<1> QED BY <1>2, Invariance, PTL

(***************************************************************************)
(* The settings, while the window shows them or rests.  The invariant says *)
(* what keeps an overtaken answer from being shown: as long as nothing     *)
(* failed, either a change that may have been made is not answered yet, so *)
(* that a load is to follow, or the last load that was started is fresh.   *)
(***************************************************************************)
Verbs  == {"load", "set"} \cup Change
Stages == {"asked", "saving", "done", "failed", "answered"}
TaskRecords ==
  [verb : Verbs, entry : Entries \cup {LoadTask.entry}, by : {"panel", "user"},
   secret : BOOLEAN, at : Stages, seen : [Entries -> Int]]

PanelTypes ==
  /\ task \in Seq(TaskRecords)
  /\ config \in [Entries -> Int] /\ snapshot \in [Entries -> Int]
  /\ unmounted \in BOOLEAN /\ clean \in BOOLEAN

\* Nothing is seen before the first load, which loading waits for.
LoadingIsAsked ==
  /\ task = <<>> => snapshot = NotLoaded
  /\ ~unmounted /\ task # <<>> /\ status = "loading" =>
       \E c \in Calls : task[c].verb = "load" /\ task[c].at # "answered"

\* A credential is in the store before its entry can be in a configuration,
\* the host's own or the one that an undone change would bring back.
Vouched(cfg, tasks, stored) ==
  \A e \in Entries :
    /\ cfg[e] <= Len(tasks)
    /\ cfg[e] \in DOMAIN tasks /\ tasks[cfg[e]].secret => e \in stored
CredentialFirst ==
  /\ Vouched(config, task, secrets)
  /\ \A c \in Calls :
       /\ task[c].at = "saving" => Vouched(task[c].seen, task, secrets)
       /\ task[c].secret /\ task[c].verb # "set" => task[c].entry \in secrets

\* A change that may have reached the host, and whose answer is still to come.
Unsettled(c) == task[c].verb \in Change /\ task[c].at \in {"saving", "done", "failed"}

LastLoad(c) == /\ task[c].verb = "load"
               /\ \A d \in Calls : task[d].verb = "load" => d <= c

\* What the last load has read, and what is shown of it, is what the host has.
Fresh(c) == /\ task[c].at = "done" => task[c].seen = config
            /\ task[c].at = "answered" /\ status = "ready" => snapshot = config

LastLoadIsFresh ==
  clean /\ ~unmounted =>
    (\E c \in Calls : Unsettled(c)) \/ (\E c \in Calls : LastLoad(c) /\ Fresh(c))

PanelInv == PanelTypes /\ LoadingIsAsked /\ CredentialFirst /\ LastLoadIsFresh

\* What a step does to the list of calls: one of them moves on, or a new one
\* joins.
Moved(tasks, new, c) ==
  /\ new \in Seq(TaskRecords) /\ DOMAIN new = DOMAIN tasks /\ Len(new) = Len(tasks)
  /\ \A d \in DOMAIN tasks : d # c => new[d] = tasks[d]
  /\ new[c].entry = tasks[c].entry /\ new[c].secret = tasks[c].secret
Grown(tasks, new, t) ==
  /\ new \in Seq(TaskRecords)
  /\ DOMAIN new = DOMAIN tasks \cup {Len(new)} /\ Len(new) = Len(tasks) + 1
  /\ \A d \in DOMAIN tasks : new[d] = tasks[d]
  /\ new[Len(new)] = t

LEMMA RecordMoves ==
  ASSUME NEW tasks, tasks \in Seq(TaskRecords), NEW c, c \in DOMAIN tasks,
         NEW r, r \in TaskRecords, r.entry = tasks[c].entry, r.secret = tasks[c].secret,
         NEW new, new = [tasks EXCEPT ![c] = r]
  PROVE  Moved(tasks, new, c) /\ new[c] = r
<1>1. /\ new \in Seq(TaskRecords) /\ DOMAIN new = DOMAIN tasks /\ Len(new) = Len(tasks)
      /\ new[c] = r /\ \A d \in DOMAIN tasks : d # c => new[d] = tasks[d]
  OBVIOUS
<1> QED BY <1>1, Zenon DEF Moved

LEMMA Answering ==
  ASSUME PanelTypes, NEW c \in Calls
  PROVE  LET new == [task EXCEPT ![c].at = "answered"]
         IN  /\ Moved(task, new, c) /\ new[c].at = "answered"
             /\ new[c].verb = task[c].verb /\ new[c].seen = task[c].seen
<1> DEFINE r == [task[c] EXCEPT !.at = "answered"]
           new == [task EXCEPT ![c].at = "answered"]
<1>1. task \in Seq(TaskRecords) /\ c \in DOMAIN task BY DEF PanelTypes, Calls
<1>2. task[c] \in TaskRecords BY <1>1
<1>3. /\ r \in TaskRecords /\ r.entry = task[c].entry /\ r.secret = task[c].secret
      /\ r.at = "answered" /\ r.verb = task[c].verb /\ r.seen = task[c].seen
  BY <1>2 DEF TaskRecords, Stages
<1>4. new = [task EXCEPT ![c] = r] OBVIOUS
<1> HIDE DEF r, new
<1>5. Moved(task, new, c) /\ new[c] = r BY <1>1, <1>3, <1>4, RecordMoves
<1>6. /\ Moved(task, new, c) /\ new[c].at = "answered"
      /\ new[c].verb = task[c].verb /\ new[c].seen = task[c].seen
  BY <1>3, <1>5
<1> QED BY <1>6 DEF new

LEMMA Storing ==
  ASSUME PanelTypes, NEW c \in Calls, NEW verb \in Verbs, task' = [task EXCEPT ![c].verb = verb]
  PROVE  Moved(task, task', c) /\ task'[c].verb = verb /\ task'[c].at = task[c].at
<1> DEFINE r == [task[c] EXCEPT !.verb = verb]
<1>1. task \in Seq(TaskRecords) /\ c \in DOMAIN task BY DEF PanelTypes, Calls
<1>2. task[c] \in TaskRecords BY <1>1
<1>3. /\ r \in TaskRecords /\ r.entry = task[c].entry /\ r.secret = task[c].secret
      /\ r.at = task[c].at /\ r.verb = verb
  BY <1>2 DEF TaskRecords
<1>4. task' = [task EXCEPT ![c] = r] OBVIOUS
<1> HIDE DEF r
<1>5. Moved(task, task', c) /\ task'[c] = r BY <1>1, <1>3, <1>4, RecordMoves
<1> QED BY <1>3, <1>5

LEMMA TaskGrows ==
  ASSUME NEW tasks \in Seq(TaskRecords), NEW t \in TaskRecords
  PROVE  Grown(tasks, Append(tasks, t), t)
BY DEF Grown

LEMMA LoadTasks ==
  /\ LoadTask \in TaskRecords /\ LoadTask.verb = "load" /\ LoadTask.secret = FALSE
  /\ LoadTask.at = "asked" /\ NotLoaded \in [Entries -> Int]
<1> DEFINE home == CHOOSE e \in Entries : TRUE
<1>1. LoadTask = [verb |-> "load", entry |-> home, by |-> "panel",
                  secret |-> FALSE, at |-> "asked", seen |-> NotLoaded]
  BY Zenon DEF LoadTask
<1>2. NotLoaded \in [Entries -> Int] BY DEF NotLoaded, Absent
<1> HIDE DEF home
<1>3. LoadTask.entry = home /\ LoadTask.verb = "load" /\ LoadTask.secret = FALSE /\ LoadTask.at = "asked"
  BY <1>1
<1>4. LoadTask \in TaskRecords
  BY <1>1, <1>2, <1>3 DEF TaskRecords, Verbs, Stages
<1> QED BY <1>2, <1>3, <1>4

\* A configuration stays vouched for while calls move on, join and store
\* credentials.
LEMMA VouchedStays ==
  ASSUME NEW tasks \in Seq(TaskRecords), NEW new, NEW stored, NEW more,
         NEW cfg \in [Entries -> Int], Vouched(cfg, tasks, stored), stored \subseteq more,
         (\E c \in DOMAIN tasks : Moved(tasks, new, c)) \/ (\E t : Grown(tasks, new, t))
  PROVE  Vouched(cfg, new, more)
BY DEF Vouched, Moved, Grown

\* One call moves on.
LEMMA MoveInv ==
  ASSUME PanelInv, NEW c \in Calls, Moved(task, task', c),
         config' \in [Entries -> Int], snapshot' \in [Entries -> Int],
         unmounted' \in BOOLEAN, clean' \in BOOLEAN, secrets \subseteq secrets',
         Vouched(config', task', secrets'),
         task'[c].at = "saving" => Vouched(task'[c].seen, task', secrets'),
         task'[c].secret /\ task'[c].verb # "set" => task'[c].entry \in secrets',
         LoadingIsAsked', LastLoadIsFresh'
  PROVE  PanelInv'
<1>1. PanelTypes' BY DEF PanelTypes, Moved
<1>2. ASSUME NEW d \in Calls', d # c, task'[d].at = "saving"
      PROVE  Vouched(task'[d].seen, task', secrets')
  <2>1. d \in Calls /\ task'[d] = task[d] BY <1>2 DEF Calls, Moved
  <2>2. task \in Seq(TaskRecords) BY DEF PanelInv, PanelTypes
  <2>3. task[d] \in TaskRecords BY <2>1, <2>2 DEF Calls
  <2>4. task[d].seen \in [Entries -> Int] BY <2>3 DEF TaskRecords
  <2>5. Vouched(task[d].seen, task, secrets) BY <1>2, <2>1 DEF PanelInv, CredentialFirst
  <2> QED BY <2>1, <2>2, <2>4, <2>5, VouchedStays DEF Calls
<1>3. ASSUME NEW d \in Calls', d # c, task'[d].secret, task'[d].verb # "set"
      PROVE  task'[d].entry \in secrets'
  BY <1>3 DEF Calls, Moved, PanelInv, CredentialFirst
<1>4. CredentialFirst' BY <1>2, <1>3 DEF CredentialFirst, Calls
<1> QED BY <1>1, <1>4 DEF PanelInv

\* A call is answered, fails or has read, with no effect on the host.
LEMMA QuietInv ==
  ASSUME PanelInv, NEW c \in Calls, Moved(task, task', c),
         task'[c].at # "saving", task'[c].verb = task[c].verb,
         UNCHANGED <<config, secrets, unmounted>>,
         snapshot' \in [Entries -> Int], clean' \in BOOLEAN,
         LoadingIsAsked', LastLoadIsFresh'
  PROVE  PanelInv'
<1>1. Vouched(config', task', secrets')
  BY VouchedStays DEF PanelInv, PanelTypes, CredentialFirst, Calls
<1>2. task'[c].secret /\ task'[c].verb # "set" => task'[c].entry \in secrets'
  BY DEF PanelInv, CredentialFirst, Moved
<1> QED BY <1>1, <1>2, MoveInv DEF PanelInv, PanelTypes

\* A call that is not answered yet moves on, and does not touch what is shown.
LEMMA UnansweredMoves ==
  ASSUME PanelInv, NEW c \in Calls, Moved(task, task', c),
         task'[c].at # "answered", task'[c].verb = "load" <=> task[c].verb = "load",
         Unsettled(c) => Unsettled(c)', task[c].at # "answered",
         config' = config \/ Unsettled(c)',
         task'[c].verb = "load" /\ task'[c].at = "done" => task'[c].seen = config',
         UNCHANGED <<status, snapshot, unmounted, clean>>
  PROVE  LoadingIsAsked' /\ LastLoadIsFresh'
<1>1. LoadingIsAsked' BY DEF PanelInv, PanelTypes, LoadingIsAsked, Moved, Calls, NotLoaded
<1>2. ASSUME NEW d \in Calls, Unsettled(d) PROVE \E e \in Calls' : Unsettled(e)'
  BY <1>2 DEF Unsettled, Moved, Calls
<1>3. ASSUME NEW d \in Calls, LastLoad(d), Fresh(d), config' = config
      PROVE  d \in Calls' /\ LastLoad(d)' /\ Fresh(d)'
  BY <1>3 DEF LastLoad, Fresh, Moved, Calls
<1>4. LastLoadIsFresh' BY <1>2, <1>3 DEF PanelInv, LastLoadIsFresh, Moved, Calls
<1> QED BY <1>1, <1>4

\* The host's steps.
LEMMA ServeMoves ==
  ASSUME PanelTypes, NEW c \in Calls, NEW stage \in Stages, NEW seen \in [Entries -> Int], Serve(c, stage, seen)
  PROVE  /\ Moved(task, task', c) /\ task'[c].at = stage /\ task'[c].seen = seen
         /\ task'[c].verb = task[c].verb
         /\ UNCHANGED <<status, snapshot, unmounted, secrets, clean>>
<1> DEFINE r == [task[c] EXCEPT !.at = stage, !.seen = seen]
<1>1. task \in Seq(TaskRecords) /\ c \in DOMAIN task BY DEF PanelTypes, Calls
<1>2. task[c] \in TaskRecords BY <1>1
<1>3. /\ r \in TaskRecords /\ r.entry = task[c].entry /\ r.secret = task[c].secret
      /\ r.at = stage /\ r.verb = task[c].verb /\ r.seen = seen
  BY <1>2 DEF TaskRecords
<1>4. task' = [task EXCEPT ![c] = r]
  BY <1>1 DEF Serve
<1> HIDE DEF r
<1>5. Moved(task, task', c) /\ task'[c] = r BY <1>1, <1>3, <1>4, RecordMoves
<1> QED BY <1>3, <1>5 DEF Serve

LEMMA TaskType == ASSUME PanelTypes, NEW c \in Calls PROVE task[c] \in TaskRecords
BY DEF PanelTypes, Calls

LEMMA HostInv ==
  ASSUME PanelInv, NEW c \in Calls,
         ConfigRead(c) \/ Refused(c) \/ Apply(c) \/ ChangeSaved(c) \/ ChangeUndone(c)
  PROVE  PanelInv'
<1> USE DEF Change, Pending
<1>1. /\ PanelTypes /\ config \in [Entries -> Int] /\ NotLoaded \in [Entries -> Int]
      /\ task[c].seen \in [Entries -> Int] /\ task[c].verb \in Verbs
  BY TaskType, LoadTasks DEF PanelInv, PanelTypes, TaskRecords
<1>2. {"done", "failed", "saving"} \subseteq Stages BY DEF Stages
<1>3. CASE ConfigRead(c)
  <2>1. /\ Moved(task, task', c) /\ task'[c].at = "done" /\ task'[c].seen = config
        /\ task'[c].verb = task[c].verb
        /\ UNCHANGED <<status, snapshot, unmounted, secrets, clean, config>>
    BY <1>1, <1>2, <1>3, ServeMoves DEF ConfigRead
  <2>2. task[c].verb = "load" /\ task[c].at = "asked" BY <1>3 DEF ConfigRead
  <2>3. LoadingIsAsked' /\ LastLoadIsFresh'
    BY <2>1, <2>2, UnansweredMoves DEF Unsettled
  <2> QED BY <1>1, <2>1, <2>3, QuietInv DEF PanelTypes
<1>4. CASE Refused(c)
  <2>1. /\ Moved(task, task', c) /\ task'[c].at = "failed"
        /\ task'[c].verb = task[c].verb
        /\ UNCHANGED <<status, snapshot, unmounted, secrets, clean, config>>
    BY <1>1, <1>2, <1>4, ServeMoves DEF Refused
  <2>2. task[c].at \in {"asked", "done"} BY <1>4 DEF Refused
  <2>3. LoadingIsAsked' /\ LastLoadIsFresh'
    BY <2>1, <2>2, UnansweredMoves DEF Unsettled
  <2> QED BY <1>1, <2>1, <2>3, QuietInv DEF PanelTypes
<1>5. CASE Apply(c)
  <2> DEFINE e == task[c].entry
             value == IF task[c].verb = "delete" THEN Absent ELSE c
  <2>1. /\ Moved(task, task', c) /\ task'[c].at = "saving" /\ task'[c].seen = config
        /\ task'[c].verb = task[c].verb
        /\ UNCHANGED <<status, snapshot, unmounted, secrets, clean>>
    BY <1>1, <1>2, <1>5, ServeMoves DEF Apply
  <2>2. task[c].verb \in Change /\ task[c].at = "asked" BY <1>5 DEF Apply
  <2>3. /\ value \in Int /\ value <= Len(task) /\ (value \in Calls => value = c)
        /\ config' = [config EXCEPT ![e] = value]
    BY <1>1, <1>5 DEF Apply, Absent, PanelTypes, Calls
  <2>4. Vouched(config, task', secrets')
    <3>1. Vouched(config, task, secrets) /\ task \in Seq(TaskRecords) /\ secrets' = secrets
      BY <1>1, <2>1 DEF PanelInv, CredentialFirst, PanelTypes
    <3> QED BY <1>1, <2>1, <3>1, VouchedStays DEF Calls
  <2>5. task[c].secret => e \in secrets'
    BY <2>1, <2>2 DEF PanelInv, CredentialFirst
  <2> HIDE DEF value, e
  <2>6. config' \in [Entries -> Int] BY <1>1, <2>3
  <2>7. Vouched(config', task', secrets')
    <3>1. /\ Len(task') = Len(task) /\ DOMAIN task' = Calls /\ task'[c].secret = task[c].secret
      BY <2>1 DEF Moved, Calls
    <3>2. ASSUME NEW d \in Entries, d # e
          PROVE  config'[d] <= Len(task') /\ (config'[d] \in DOMAIN task' /\ task'[config'[d]].secret => d \in secrets')
      <4>1. config'[d] = config[d] BY <1>1, <2>3, <3>2
      <4> QED BY <2>4, <4>1 DEF Vouched
    <3>3. ASSUME e \in Entries
          PROVE  config'[e] <= Len(task') /\ (config'[e] \in DOMAIN task' /\ task'[config'[e]].secret => e \in secrets')
      <4>1. config'[e] = value BY <1>1, <2>3, <3>3
      <4> QED BY <2>3, <2>5, <3>1, <4>1
    <3> QED BY <3>2, <3>3 DEF Vouched
  <2>8. LoadingIsAsked' /\ LastLoadIsFresh'
    BY <2>1, <2>2, UnansweredMoves DEF Unsettled
  <2>9. task'[c].secret /\ task'[c].verb # "set" => task'[c].entry \in secrets'
    BY <2>1, <2>5 DEF Moved, e
  <2> QED BY <1>1, <2>1, <2>4, <2>6, <2>7, <2>8, <2>9, MoveInv DEF PanelTypes
<1>6. CASE ChangeSaved(c)
  <2>1. /\ Moved(task, task', c) /\ task'[c].at = "done"
        /\ task'[c].verb = task[c].verb
        /\ UNCHANGED <<status, snapshot, unmounted, secrets, clean, config>>
    BY <1>1, <1>2, <1>6, ServeMoves DEF ChangeSaved
  <2>2. task[c].verb \in Change /\ task[c].at = "saving" BY <1>6 DEF ChangeSaved
  <2>3. LoadingIsAsked' /\ LastLoadIsFresh'
    BY <2>1, <2>2, UnansweredMoves DEF Unsettled
  <2> QED BY <1>1, <2>1, <2>3, QuietInv DEF PanelTypes
<1>7. CASE ChangeUndone(c)
  <2>1. /\ Moved(task, task', c) /\ task'[c].at = "failed"
        /\ task'[c].verb = task[c].verb
        /\ UNCHANGED <<status, snapshot, unmounted, secrets, clean>>
    BY <1>1, <1>2, <1>7, ServeMoves DEF ChangeUndone
  <2>2. task[c].verb \in Change /\ task[c].at = "saving" /\ config' = task[c].seen
    BY <1>7 DEF ChangeUndone
  <2>3. Vouched(config', task', secrets')
    BY <1>1, <2>1, <2>2, VouchedStays DEF PanelInv, CredentialFirst, PanelTypes, Calls
  <2>4. LoadingIsAsked' /\ LastLoadIsFresh'
    BY <2>1, <2>2, UnansweredMoves DEF Unsettled
  <2>5. task'[c].secret /\ task'[c].verb # "set" => task'[c].entry \in secrets'
    BY <2>1 DEF PanelInv, CredentialFirst, Moved
  <2> QED BY <1>1, <2>1, <2>2, <2>3, <2>4, <2>5, MoveInv DEF PanelTypes
<1> QED BY <1>3, <1>4, <1>5, <1>6, <1>7

\* The panel's calls and their answers.
LEMMA AnswerInv ==
  ASSUME PanelInv, NEW c \in Calls,
         \/ CredentialSet(c) \/ CredentialFails(c) \/ ChangeFails(c)
         \/ Loaded(c) \/ LoadFails(c)
  PROVE  PanelInv'
<1> USE DEF Change, Pending
<1>1. /\ PanelTypes /\ task \in Seq(TaskRecords) /\ c \in DOMAIN task
      /\ task[c] \in TaskRecords /\ task[c].seen \in [Entries -> Int]
      /\ snapshot \in [Entries -> Int] /\ clean \in BOOLEAN /\ config \in [Entries -> Int]
  BY TaskType DEF PanelInv, PanelTypes, TaskRecords, Calls
<1>2. ASSUME task' = [task EXCEPT ![c].at = "answered"]
      PROVE  /\ Moved(task, task', c) /\ task'[c].at = "answered"
             /\ task'[c].verb = task[c].verb /\ task'[c].seen = task[c].seen
  BY <1>1, <1>2, Answering, Zenon
<1>3. CASE CredentialSet(c)
  <2> DEFINE v == Verb(task[c].entry)
  <2>1. v \in {"create", "update"} /\ v \in Verbs BY DEF Verb, Verbs
  <2>2. task' = [task EXCEPT ![c].verb = v] BY <1>3 DEF CredentialSet
  <2> HIDE DEF v
  <2>3. /\ Moved(task, task', c) /\ task'[c].verb = v
        /\ task'[c].at = task[c].at
    BY <1>1, <2>1, <2>2, Storing, Zenon
  <2>4. /\ task[c].verb = "set" /\ task[c].at = "asked"
        /\ secrets' = secrets \cup {task[c].entry}
        /\ UNCHANGED <<status, snapshot, unmounted, config, clean>>
    BY <1>3 DEF CredentialSet
  <2>5. LoadingIsAsked' /\ LastLoadIsFresh'
    BY <2>1, <2>3, <2>4, UnansweredMoves DEF Unsettled
  <2>6. Vouched(config', task', secrets')
    <3>1. Vouched(config, task, secrets) /\ secrets \subseteq secrets' /\ config' = config
      BY <2>4 DEF PanelInv, CredentialFirst
    <3>2. Vouched(config, task', secrets')
      BY <1>1, <2>3, <3>1, VouchedStays
    <3> QED BY <3>1, <3>2
  <2>7. task'[c].entry \in secrets' BY <2>3, <2>4 DEF Moved
  <2> QED BY <1>1, <2>3, <2>4, <2>5, <2>6, <2>7, MoveInv DEF PanelTypes
<1>4. ASSUME Fail(c) PROVE PanelInv'
  <2>1. /\ status' = "failed" /\ clean' = FALSE
        /\ UNCHANGED <<snapshot, unmounted, config, secrets>>
    BY <1>4 DEF Fail
  <2>2. Moved(task, task', c) /\ task'[c].at = "answered" /\ task'[c].verb = task[c].verb
    BY <1>2, <1>4, Zenon DEF Fail
  <2>3. LoadingIsAsked' /\ LastLoadIsFresh'
    <3>1. task # <<>> /\ task' # <<>> BY <1>1, <2>2 DEF Moved
    <3> QED BY <2>1, <3>1 DEF LoadingIsAsked, LastLoadIsFresh
  <2> QED BY <1>1, <2>1, <2>2, <2>3, QuietInv
<1>5. CASE CredentialFails(c) BY <1>4, <1>5 DEF CredentialFails
<1>6. CASE ChangeFails(c) BY <1>4, <1>6 DEF ChangeFails
<1>7. CASE Loaded(c)
  <2>1. /\ status' = "ready"
        /\ snapshot' = task[c].seen /\ clean' = (clean /\ ~Overtaken(c))
        /\ UNCHANGED <<unmounted, config, secrets>>
        /\ task[c].verb = "load" /\ task[c].at = "done"
    BY <1>7 DEF Loaded
  <2>2. Moved(task, task', c) /\ task'[c].at = "answered" /\ task'[c].verb = task[c].verb
    BY <1>2, <1>7, Zenon DEF Loaded
  <2>3. LoadingIsAsked'
    <3>1. task' # <<>> BY <1>1, <2>2 DEF Moved
    <3> QED BY <2>1, <3>1 DEF LoadingIsAsked
  <2>4. ASSUME clean', ~unmounted'
        PROVE  \/ \E d \in Calls' : Unsettled(d)'
               \/ \E d \in Calls' : LastLoad(d)' /\ Fresh(d)'
    <3>1. clean /\ ~unmounted /\ ~Overtaken(c) BY <2>1, <2>4
    <3>2. ASSUME NEW d \in Calls, Unsettled(d) PROVE d \in Calls' /\ Unsettled(d)'
      <4>1. d # c BY <2>1, <3>2 DEF Unsettled
      <4> QED BY <2>2, <3>2, <4>1 DEF Unsettled, Moved, Calls
    <3>3. ASSUME NEW d \in Calls, LastLoad(d), Fresh(d) PROVE d \in Calls' /\ LastLoad(d)' /\ Fresh(d)'
      <4>1. d \in Calls' /\ LastLoad(d)' BY <2>2, <3>3 DEF LastLoad, Moved, Calls
      <4>2. CASE d = c BY <4>1, <2>1, <2>2, <3>3, <4>2 DEF Fresh
      <4>3. CASE d # c
        <5>1. c <= d /\ d > c BY <1>1, <2>1, <3>3, <4>3 DEF LastLoad, Calls
        <5>2. task[d].at # "answered" /\ task'[d] = task[d]
          BY <2>2, <3>1, <3>3, <4>3, <5>1 DEF Overtaken, LastLoad, Moved, Calls
        <5> QED BY <2>1, <3>3, <4>1, <5>2 DEF Fresh
      <4> QED BY <4>1, <4>2, <4>3
    <3> QED BY <3>1, <3>2, <3>3 DEF PanelInv, LastLoadIsFresh
  <2>5. LastLoadIsFresh' BY <2>4 DEF LastLoadIsFresh
  <2> QED BY <1>1, <2>1, <2>2, <2>3, <2>5, QuietInv
<1>8. CASE LoadFails(c)
  <2>1. /\ status' = "failed"
        /\ UNCHANGED <<snapshot, unmounted, config, secrets, clean>>
        /\ task[c].verb = "load" /\ task[c].at = "failed"
    BY <1>8 DEF LoadFails
  <2>2. Moved(task, task', c) /\ task'[c].at = "answered" /\ task'[c].verb = task[c].verb
    BY <1>2, <1>8, Zenon DEF LoadFails
  <2>3. LoadingIsAsked'
    <3>1. task' # <<>> BY <1>1, <2>2 DEF Moved
    <3> QED BY <2>1, <3>1 DEF LoadingIsAsked
  <2>4. ASSUME NEW d \in Calls, Unsettled(d) PROVE d \in Calls' /\ Unsettled(d)'
    <3>1. d # c BY <2>1, <2>4 DEF Unsettled
    <3> QED BY <2>2, <2>4, <3>1 DEF Unsettled, Moved, Calls
  <2>5. ASSUME NEW d \in Calls, LastLoad(d), Fresh(d) PROVE d \in Calls' /\ LastLoad(d)' /\ Fresh(d)'
    BY <2>1, <2>2, <2>5 DEF LastLoad, Fresh, Moved, Calls
  <2>6. LastLoadIsFresh' BY <2>1, <2>4, <2>5 DEF PanelInv, LastLoadIsFresh
  <2> QED BY <1>1, <2>1, <2>2, <2>3, <2>6, QuietInv
<1> QED BY <1>3, <1>5, <1>6, <1>7, <1>8

\* A call joins; a change that succeeded is answered in the same step.
LEMMA JoinInv ==
  ASSUME PanelInv, NEW mid, NEW t, mid \in Seq(TaskRecords), Grown(mid, task', t),
         mid = task \/ \E c \in Calls : /\ Moved(task, mid, c) /\ mid[c].at = "answered"
                                        /\ mid[c].verb = task[c].verb,
         t.secret => t.verb = "set", t.at = "asked",
         UNCHANGED <<config, secrets, snapshot, unmounted>>, clean' \in BOOLEAN,
         LoadingIsAsked', LastLoadIsFresh'
  PROVE  PanelInv'
<1>1. task \in Seq(TaskRecords) /\ config \in [Entries -> Int]
  BY DEF PanelInv, PanelTypes
<1>2. PanelTypes' BY DEF PanelInv, PanelTypes, Grown
<1>3. ASSUME NEW cfg \in [Entries -> Int], Vouched(cfg, task, secrets)
      PROVE  Vouched(cfg, task', secrets')
  <2>1. Vouched(cfg, mid, secrets')
    BY <1>1, <1>3, VouchedStays DEF Calls
  <2> QED BY <2>1, VouchedStays
<1>4. DOMAIN mid = Calls /\ DOMAIN task' = Calls \cup {Len(task')} /\ task'[Len(task')] = t
  BY DEF Grown, Moved, Calls
<1>5. ASSUME NEW d \in Calls
      PROVE  /\ task'[d].at = "saving" => task[d].at = "saving" /\ task'[d].seen = task[d].seen
             /\ task'[d].verb = task[d].verb /\ task'[d].secret = task[d].secret
             /\ task'[d].entry = task[d].entry
  <2>1. task'[d] = mid[d] BY <1>4 DEF Grown
  <2> QED BY <2>1 DEF Moved, Calls
<1>6. ASSUME NEW d \in Calls', task'[d].at = "saving" PROVE Vouched(task'[d].seen, task', secrets')
  <2>1. d \in Calls BY <1>4, <1>6 DEF Calls
  <2>2. /\ task[d].seen \in [Entries -> Int] /\ task'[d].seen = task[d].seen
        /\ Vouched(task[d].seen, task, secrets)
    BY <1>5, <1>6, <2>1, TaskType DEF PanelInv, CredentialFirst, TaskRecords
  <2> QED BY <1>3, <2>2, SMTT(30)
<1>7. ASSUME NEW d \in Calls', task'[d].secret, task'[d].verb # "set"
      PROVE  task'[d].entry \in secrets'
  <2>1. d \in Calls BY <1>4, <1>7 DEF Calls
  <2> QED BY <1>5, <1>7, <2>1, SMTT(30) DEF PanelInv, CredentialFirst
<1>8. Vouched(config', task', secrets')
  <2>1. Vouched(config, task', secrets') BY <1>1, <1>3 DEF PanelInv, CredentialFirst
  <2> QED BY <2>1
<1> QED BY <1>2, <1>6, <1>7, <1>8 DEF PanelInv, CredentialFirst

\* After a load has joined, it is the last one and still to be answered.
LEMMA LoadJoins ==
  ASSUME PanelInv, NEW mid, mid \in Seq(TaskRecords), NEW t, Grown(mid, task', t),
         t.verb = "load", t.at = "asked"
  PROVE  LoadingIsAsked' /\ LastLoadIsFresh'
<1>1. PICK n : n = Len(task') OBVIOUS
<1>2. /\ n \in Calls' /\ task'[n] = t /\ task' # <<>>
      /\ \A d \in Calls' : d <= n
  BY <1>1 DEF Grown, Calls
<1>3. LoadingIsAsked' BY <1>2 DEF LoadingIsAsked
<1>4. LastLoad(n)' /\ Fresh(n)' BY <1>2 DEF LastLoad, Fresh
<1>5. LastLoadIsFresh' BY <1>2, <1>4 DEF LastLoadIsFresh
<1> QED BY <1>3, <1>5

\* Another call that joins leaves what is shown alone.
LEMMA OtherJoins ==
  ASSUME PanelInv, NEW t, Grown(task, task', t), t.verb # "load", task # <<>>,
         UNCHANGED <<status, snapshot, unmounted, clean, config>>
  PROVE  LoadingIsAsked' /\ LastLoadIsFresh'
<1>1. task' # <<>> BY DEF Grown, PanelInv, PanelTypes
<1>2. LoadingIsAsked'
  BY <1>1 DEF PanelInv, LoadingIsAsked, Grown, Calls
<1>3. ASSUME NEW d \in Calls, Unsettled(d) PROVE d \in Calls' /\ Unsettled(d)'
  BY <1>3 DEF Unsettled, Grown, Calls
<1>4. ASSUME NEW d \in Calls, LastLoad(d), Fresh(d) PROVE d \in Calls' /\ LastLoad(d)' /\ Fresh(d)'
  BY <1>4 DEF LastLoad, Fresh, Grown, Calls
<1> QED BY <1>2, <1>3, <1>4 DEF PanelInv, LastLoadIsFresh

LEMMA UserInv ==
  ASSUME PanelInv,
         \/ Refresh \/ LocalRefuse \/ Unmounts
         \/ \E e \in Entries : Delete(e) \/ \E secret \in BOOLEAN : Save(e, secret)
         \/ \E c \in Calls : Changed(c)
  PROVE  PanelInv'
<1>1. PanelTypes /\ task \in Seq(TaskRecords) /\ clean \in BOOLEAN
  BY DEF PanelInv, PanelTypes
<1>2. CASE Refresh
  <2> DEFINE t == [LoadTask EXCEPT !.by = "user"]
  <2>1. /\ task' = Append(task, t) /\ clean' \in BOOLEAN
        /\ UNCHANGED <<config, secrets, snapshot, unmounted>>
    BY <1>1, <1>2 DEF Refresh, Asked
  <2>2. t \in TaskRecords /\ t.verb = "load" /\ ~t.secret /\ t.at = "asked"
    BY LoadTasks DEF TaskRecords
  <2> HIDE DEF t
  <2>3. Grown(task, task', t) BY <1>1, <2>1, <2>2, TaskGrows
  <2>4. LoadingIsAsked' /\ LastLoadIsFresh' BY <1>1, <2>2, <2>3, LoadJoins
  <2> QED BY <1>1, <2>1, <2>2, <2>3, <2>4, JoinInv
<1>3. ASSUME NEW e \in Entries, Delete(e) PROVE PanelInv'
  <2> DEFINE t == [[LoadTask EXCEPT !.entry = e, !.verb = "delete"] EXCEPT !.by = "user"]
  <2>1. /\ task' = Append(task, t)
        /\ UNCHANGED <<config, secrets, snapshot, unmounted, status, clean>>
    BY <1>3 DEF Delete, Asked
  <2>2. t \in TaskRecords /\ t.verb = "delete" /\ ~t.secret /\ t.at = "asked"
    BY LoadTasks DEF TaskRecords, Verbs, Change
  <2>3. task # <<>>
    BY <1>3 DEF Delete, PanelInv, LoadingIsAsked, NotLoaded
  <2> HIDE DEF t
  <2>4. Grown(task, task', t) BY <1>1, <2>1, <2>2, TaskGrows
  <2>5. LoadingIsAsked' /\ LastLoadIsFresh' BY <2>1, <2>2, <2>3, <2>4, OtherJoins
  <2> QED BY <1>1, <2>1, <2>2, <2>4, <2>5, JoinInv
<1>4. ASSUME NEW e \in Entries, NEW secret \in BOOLEAN, Save(e, secret) PROVE PanelInv'
  <2> DEFINE v == IF secret THEN "set" ELSE Verb(e)
             t == [[LoadTask EXCEPT !.entry = e, !.secret = secret, !.verb = v] EXCEPT !.by = "user"]
  <2>1. /\ task' = Append(task, t) /\ task # <<>>
        /\ UNCHANGED <<config, secrets, snapshot, unmounted, status, clean>>
    BY <1>4 DEF Save, Asked, Shown
  <2>2. v \in Verbs /\ v # "load" /\ (secret => v = "set") BY DEF Verb, Verbs, Change
  <2> HIDE DEF v
  <2>3. t \in TaskRecords /\ t.verb = v /\ t.secret = secret /\ t.at = "asked"
    BY <2>2, LoadTasks DEF TaskRecords
  <2> HIDE DEF t
  <2>4. Grown(task, task', t) BY <1>1, <2>1, <2>3, TaskGrows
  <2>5. LoadingIsAsked' /\ LastLoadIsFresh' BY <2>1, <2>2, <2>3, <2>4, OtherJoins
  <2> QED BY <1>1, <2>1, <2>2, <2>3, <2>4, <2>5, JoinInv
<1>5. ASSUME NEW c \in Calls, Changed(c) PROVE PanelInv'
  <2> DEFINE mid == [task EXCEPT ![c].at = "answered"]
  <2>1. /\ Moved(task, mid, c) /\ mid[c].at = "answered"
        /\ mid[c].verb = task[c].verb /\ mid[c].seen = task[c].seen
    BY <1>1, Answering, Zenon
  <2>2. /\ IF unmounted THEN task' = mid ELSE task' = Append(mid, LoadTask)
        /\ UNCHANGED <<config, secrets, snapshot, unmounted, clean>>
    BY <1>5, Zenon DEF Changed, Reload
  <2> HIDE DEF mid
  <2>3. mid \in Seq(TaskRecords) BY <2>1 DEF Moved
  <2>4. CASE unmounted
    <3>1. task' = mid BY <2>2, <2>4
    <3>2. LoadingIsAsked' /\ LastLoadIsFresh'
      <4>1. task' # <<>> BY <1>1, <2>1, <3>1 DEF Moved, Calls
      <4> QED BY <2>2, <2>4, <4>1 DEF LoadingIsAsked, LastLoadIsFresh
    <3> QED BY <2>1, <2>2, <3>1, <3>2, QuietInv DEF PanelInv, PanelTypes
  <2>5. CASE ~unmounted
    <3>1. task' = Append(mid, LoadTask) BY <2>2, <2>5
    <3>2. Grown(mid, task', LoadTask) BY <2>3, <3>1, LoadTasks, TaskGrows
    <3>3. LoadingIsAsked' /\ LastLoadIsFresh' BY <2>3, <3>2, LoadTasks, LoadJoins
    <3> QED BY <1>1, <2>1, <2>2, <2>3, <3>2, <3>3, LoadTasks, JoinInv
  <2> QED BY <2>4, <2>5
<1>6. ASSUME UNCHANGED <<snapshot, task, config, secrets, clean>>, unmounted' \in BOOLEAN,
             (UNCHANGED unmounted /\ status' = "failed") \/ (unmounted' = TRUE)
      PROVE  PanelInv'
  <2>1. LoadingIsAsked' BY <1>6 DEF PanelInv, LoadingIsAsked, NotLoaded
  <2>2. LastLoadIsFresh'
    BY <1>6 DEF PanelInv, LastLoadIsFresh, LastLoad, Fresh, Unsettled, Calls
  <2>3. PanelTypes' /\ CredentialFirst'
    BY <1>6 DEF PanelInv, PanelTypes, CredentialFirst, Calls, Vouched
  <2> QED BY <2>1, <2>2, <2>3 DEF PanelInv
<1>7. CASE LocalRefuse BY <1>1, <1>6, <1>7 DEF LocalRefuse, PanelTypes
<1>8. CASE Unmounts BY <1>1, <1>6, <1>8 DEF Unmounts, PanelTypes
<1> QED BY <1>2, <1>3, <1>4, <1>5, <1>7, <1>8

LEMMA PanelStutters == PanelInv /\ UNCHANGED panelVars => PanelInv'
BY DEF PanelInv, panelVars, PanelTypes, LoadingIsAsked, CredentialFirst, LastLoadIsFresh,
       LastLoad, Fresh, Unsettled, Vouched, Calls

LEMMA PanelStarts == DesktopInit => PanelInv
<1>1. ASSUME task = <<>>, snapshot = NotLoaded, config \in [Entries -> {Absent, Given}],
             unmounted \in BOOLEAN, clean = FALSE
      PROVE  PanelInv
  <2>0. config \in [Entries -> Int] BY <1>1 DEF Absent, Given
  <2>1. PanelTypes
    <3>1. snapshot \in [Entries -> Int] BY <1>1, LoadTasks
    <3>2. task \in Seq(TaskRecords) BY <1>1
    <3> QED BY <1>1, <2>0, <3>1, <3>2, Zenon DEF PanelTypes
  <2>2. CredentialFirst
    BY <1>1 DEF CredentialFirst, Vouched, Calls, Absent, Given
  <2> QED BY <1>1, <2>1, <2>2 DEF PanelInv, LoadingIsAsked, LastLoadIsFresh
<1>2. CASE NoPanel
  <2>1. config = NotLoaded BY <1>2 DEF NoPanel, NotLoaded, Absent
  <2>2. config \in [Entries -> {Absent, Given}] BY <2>1 DEF NotLoaded
  <2> QED BY <1>1, <1>2, <2>1, <2>2 DEF NoPanel
<1>3. CASE PanelInit BY <1>1, <1>3 DEF PanelInit
<1> QED BY <1>2, <1>3 DEF DesktopInit

\* The panel shows what the host has, does not stay at loading, and stores
\* credentials first.
THEOREM PanelShowsTheHost == DesktopSpec => []PanelSound
<1>1. PanelInv /\ [DesktopNext]_<<part, vars, panelVars, sidecarVars, hostVars>> => PanelInv'
  <2> SUFFICES ASSUME PanelInv, PanelNext \/ UNCHANGED panelVars PROVE PanelInv'
    BY DEF DesktopNext
  <2>1. CASE PanelNext BY <2>1, UserInv, AnswerInv, HostInv DEF PanelNext
  <2> QED BY <2>1, PanelStutters
<1>2. PanelInv => PanelSound
  <2> SUFFICES ASSUME PanelInv PROVE PanelSound OBVIOUS
  <2>1. ASSUME ~unmounted, clean, Idle, status = "ready" PROVE snapshot = config
    <3>1. ~ \E c \in Calls : Unsettled(c) BY <2>1 DEF Idle, Unsettled
    <3>2. PICK c \in Calls : LastLoad(c) /\ Fresh(c) BY <2>1, <3>1 DEF PanelInv, LastLoadIsFresh
    <3> QED BY <2>1, <3>2 DEF Idle, Fresh
  <2>2. ~unmounted /\ Idle /\ Shown => status # "loading"
    BY DEF PanelInv, LoadingIsAsked, Idle, Shown
  <2>3. \A e \in Entries : config[e] \in Calls /\ task[config[e]].secret => e \in secrets
    BY DEF PanelInv, CredentialFirst, Vouched, Calls
  <2> QED BY <2>1, <2>2, <2>3 DEF PanelSound
<1> QED BY <1>1, <1>2, PanelStarts, PTL DEF DesktopSpec
=============================================================================
