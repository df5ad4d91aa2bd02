--------------------------- MODULE OperatorProofs ---------------------------
(***************************************************************************)
(* Proofs about what the operator enters and what the operator sees:       *)
(* QuantityEntry, for any number of events, failures, bootstraps and       *)
(* resets, with results lost in the slot or not; and Screens, for any      *)
(* states of the server and any time an error stays.                       *)
(***************************************************************************)
EXTENDS MCOperator, SequenceTheorems, TLAPS

-----------------------------------------------------------------------------
(* QuantityEntry: figures and sessions.                                      *)

(* A snapshot the server has had, and if it is of the version the server is  *)
(* at, the state the server is in.                                           *)
Past(s) == s \in Snapshot /\ s.ver <= server.ver /\ (s.ver = server.ver => s = server)
Answered == {"SUCCESS", "BUSINESS_REJECTED"}
GoodAnswer(a) == a.out \in Answered => Past(a.snap)

(* What is shown, on its way to the loop, or stored as the answer to an      *)
(* event, is of the past.                                                    *)
SnapshotsInv ==
  /\ Past(projection)
  /\ slot # None => GoodAnswer(slot)
  /\ \A e \in Event : answers[e] # None => GoodAnswer(answers[e])

(* An event that claims the version the server is at was made in the session *)
(* the server is in, and a cancellation while no session was open.           *)
ClaimsInv ==
  \A i \in DOMAIN sent :
    /\ sent[i].ver \in Nat /\ sent[i].ver <= server.ver
    /\ sent[i].ver = server.ver =>
         /\ sent[i].ses = server.ses
         /\ sent[i].type = "CANCEL_REQUESTED" => server.st = "WAIT_OPERATION"

(* A session whose figures are booked is over.                               *)
BookedInv ==
  \A b \in booked :
    /\ b[1] \in DOMAIN sent
    /\ b[2] <= server.ses /\ (server.st \in Open => b[2] < server.ses)

SentType == sent \in Seq([type : Type, ver : Nat, ses : Nat]) /\ Len(sent) <= MaxEvents
RequestsInv ==
  /\ \A i \in DOMAIN high : high[i].kind = "EVENT" => high[i].id \in DOMAIN sent
  /\ low # None => low \in DOMAIN sent
EntryTypes ==
  /\ TypeOK /\ SentType /\ RequestsInv
  /\ DOMAIN answers = Event /\ booked \subseteq Event \X Nat
  /\ spent \in [lost : Nat, boots : Nat, resets : Nat]

EntryInv ==
  EntryTypes /\ SnapshotsInv /\ ClaimsInv /\ BookedInv /\ BookedForItsSession

LEMMA EntryInvInit == Init => EntryInv
<1>. SUFFICES ASSUME Init PROVE EntryInv
  OBVIOUS
<1>. USE DEF Init
<1>1. server \in Snapshot /\ projection = server
  BY DEF Snapshot, State
<1>2. TypeOK
  <2>1. entry \in [step : Step, ses : Nat] /\ resyncing \in BOOLEAN
    BY DEF FreshEntry, Step
  <2>2. high \in Seq(Request) /\ Len(high) <= HighDepth /\ low \in Event \cup {None}
    BY EntryAssumption
  <2>3. (\A i \in DOMAIN sent : sent[i].type \in Type) /\ unsynced \subseteq DOMAIN sent
    OBVIOUS
  <2>. QED  BY <1>1, <2>1, <2>2, <2>3 DEF TypeOK
<1>3. EntryTypes
  BY <1>2, EntryAssumption DEF EntryTypes, SentType, RequestsInv
<1>4. SnapshotsInv
  BY <1>1 DEF SnapshotsInv, Past, Snapshot
<1>. QED  BY <1>3, <1>4 DEF EntryInv, ClaimsInv, BookedInv, BookedForItsSession

(* The queue after a request, if there was room.                             *)
LEMMA HighAfterRequest ==
  ASSUME high \in Seq(Request), Len(high) <= HighDepth, NEW r \in Request
  PROVE  /\ HighAfter(r) \in Seq(Request) /\ Len(HighAfter(r)) <= HighDepth
         /\ \A i \in DOMAIN HighAfter(r) :
              (i \in DOMAIN high /\ HighAfter(r)[i] = high[i]) \/ HighAfter(r)[i] = r
<1>1. CASE Len(high) < HighDepth
  BY <1>1, EntryAssumption DEF HighAfter
<1>2. CASE ~(Len(high) < HighDepth)
  BY <1>2 DEF HighAfter
<1>. QED  BY <1>1, <1>2

LEMMA Requests ==
  /\ \A e \in Event : [kind |-> "EVENT", id |-> e] \in Request
  /\ [kind |-> "STATE_FETCH", id |-> 0] \in Request
  /\ [kind |-> "BOOTSTRAP", id |-> 0] \in Request
  BY DEF Request

(* send_business_event() claims the version and the session shown.           *)
LEMMA SendKeeps ==
  ASSUME EntryInv, NEW type \in Type, Send(type), entry' \in [step : Step, ses : Nat],
         type = "CANCEL_REQUESTED" => Shown = "WAIT_OPERATION"
  PROVE  EntryInv'
<1> DEFINE n == Len(sent) + 1
           v == [type |-> type, ver |-> Claim, ses |-> SessionOn]
           r == [kind |-> "EVENT", id |-> n]
<1>. USE DEF EntryInv, backend
<1>1. /\ sent' = Append(sent, v) /\ unsynced' = unsynced \cup {n}
      /\ high' = HighAfter(r) /\ n <= MaxEvents
      /\ UNCHANGED <<projection, resyncing, low, slot, server, answers, booked, spent>>
  BY EntryAssumption DEF Send, EntryTypes, SentType
<1>2. n \in Event /\ r \in Request
  BY <1>1, Requests DEF Event, EntryTypes, SentType
<1>3. v \in [type : Type, ver : Nat, ses : Nat]
  BY DEF Claim, SessionOn, Version, EntryTypes, TypeOK, Snapshot
<1>. HIDE DEF v, r
<1>4. /\ DOMAIN sent = 1..Len(sent) /\ DOMAIN sent' = 1..n /\ Len(sent') = n /\ n \in Nat
      /\ sent' \in Seq([type : Type, ver : Nat, ses : Nat])
      /\ \A i \in DOMAIN sent : i \in DOMAIN sent' /\ sent'[i] = sent[i]
      /\ sent'[n] = v
      /\ \A i \in DOMAIN sent' : i \in DOMAIN sent \/ i = n
  BY <1>1, <1>3 DEF EntryTypes, SentType
<1>5. /\ high' \in Seq(Request) /\ Len(high') <= HighDepth
      /\ \A i \in DOMAIN high' : (i \in DOMAIN high /\ high'[i] = high[i]) \/ high'[i] = r
  BY <1>1, <1>2, HighAfterRequest DEF EntryTypes, TypeOK
<1>6. TypeOK'
  BY <1>1, <1>4, <1>5 DEF EntryTypes, TypeOK
<1>7. RequestsInv'
  <2>1. ASSUME NEW i \in DOMAIN high', high'[i].kind = "EVENT"
        PROVE  high'[i].id \in DOMAIN sent'
    <3>1. CASE high'[i] = r
      BY <1>4, <3>1 DEF r
    <3>2. CASE i \in DOMAIN high /\ high'[i] = high[i]
      BY <1>4, <2>1, <3>2 DEF EntryTypes, RequestsInv
    <3>. QED  BY <1>5, <3>1, <3>2
  <2>2. low' # None => low' \in DOMAIN sent'
    BY <1>1, <1>4 DEF EntryTypes, RequestsInv
  <2>. QED  BY <2>1, <2>2 DEF RequestsInv
<1>8. EntryTypes'
  BY <1>1, <1>4, <1>6, <1>7 DEF EntryTypes, SentType
<1>9. SnapshotsInv'
  BY <1>1 DEF SnapshotsInv, Past, GoodAnswer
<1>10. ClaimsInv'
  <2>1. Past(projection) /\ projection \in Snapshot
    BY DEF SnapshotsInv, EntryTypes, TypeOK
  <2>2. v.ver = projection.ver /\ v.ses = projection.ses /\ v.type = type
    BY DEF v, Claim, Version, SessionOn
  <2>3. projection.ver = server.ver => projection = server
    BY <2>1 DEF Past
  <2>4. type = "CANCEL_REQUESTED" => projection.st = "WAIT_OPERATION"
    BY DEF Shown
  <2>. QED  BY <1>1, <1>4, <2>1, <2>2, <2>3, <2>4 DEF ClaimsInv, Past, Snapshot
<1>11. BookedInv' /\ BookedForItsSession'
  BY <1>1, <1>4 DEF BookedInv, BookedForItsSession
<1>. QED  BY <1>8, <1>9, <1>10, <1>11

(* A step that makes no event and leaves the server alone.                   *)
LEMMA ServerStays ==
  ASSUME EntryInv, UNCHANGED <<sent, backend>>, EntryTypes',
         Past(projection'), slot' # None => GoodAnswer(slot')
  PROVE  EntryInv'
<1>. USE DEF EntryInv, backend
<1>1. SnapshotsInv'
  BY DEF SnapshotsInv, Past, GoodAnswer
<1>2. ClaimsInv' /\ BookedInv' /\ BookedForItsSession'
  BY DEF ClaimsInv, BookedInv, BookedForItsSession
<1>. QED  BY <1>1, <1>2

(* Keys of the entry, which stay within the kiosk.                           *)
LEMMA TypingKeeps ==
  ASSUME EntryInv, Typing, entry' \in [step : Step, ses : Nat]
  PROVE  EntryInv'
<1>1. EntryTypes'
  BY DEF EntryInv, Typing, network, backend, EntryTypes, TypeOK, SentType, RequestsInv
<1>. QED  BY <1>1, ServerStays DEF EntryInv, Typing, network, backend, SnapshotsInv

LEMMA InputKeeps == EntryInv /\ (Scan \/ Keys \/ IdleTimeout) => EntryInv'
<1>. SUFFICES ASSUME EntryInv, Scan \/ Keys \/ IdleTimeout PROVE EntryInv'
  OBVIOUS
<1>0. entry \in [step : Step, ses : Nat] /\ SessionOn \in Nat
  BY DEF EntryInv, EntryTypes, TypeOK, SessionOn, Snapshot
<1>1. CASE Scan
  BY <1>0, <1>1, SendKeeps DEF Scan, Type
<1>2. CASE CancelKey \/ IdleTimeout
  BY <1>0, <1>2, SendKeeps DEF CancelKey, KeyAt, IdleTimeout, TimeoutCancels, Type
<1>3. CASE FinishKey \/ Submit
  BY <1>0, <1>3, SendKeeps DEF FinishKey, Submit, Type
<1>4. CASE ConfirmGood \/ Restart
  BY <1>0, <1>4, TypingKeeps DEF ConfirmGood, Restart, Typing, FreshEntry, Step
<1>5. ASSUME NEW step, NEW next \in Step, Confirm(step, next) PROVE EntryInv'
  BY <1>0, <1>5, TypingKeeps DEF Confirm
<1>6. CASE ConfirmDefect \/ Repairable \/ NotRepairable \/ ConfirmRework
  BY <1>5, <1>6 DEF ConfirmDefect, Repairable, NotRepairable, ConfirmRework, Step
<1>. QED  BY <1>1, <1>2, <1>3, <1>4, <1>6 DEF Keys

-----------------------------------------------------------------------------
(* The server.                                                               *)

(* Whatever an event leaves is the state the server is in, or a new version. *)
LEMMA OutcomesMove ==
  ASSUME server \in Snapshot, NEW type \in Type, NEW after \in Outcomes(type)
  PROVE  /\ after \in Snapshot
         /\ after # server =>
              /\ after.ver = server.ver + 1 /\ after.ses \in {server.ses, server.ses + 1}
              /\ after.st \in Open =>
                   \/ after.ses = server.ses + 1
                   \/ after.ses = server.ses /\ server.st \in Open
              /\ type = "QUANTITY_SUBMITTED" =>
                   server.st = "QUANTITY_INPUT" /\ after.st = "WAIT_EMPLOYEE" /\ after.ses = server.ses
              /\ server.st \in Open /\ after.st \notin Open =>
                   type \in {"QUANTITY_SUBMITTED", "CANCEL_REQUESTED"}
<1>1. server.ver \in Nat /\ server.ses \in Nat /\ server.st \in State
  BY DEF Snapshot
<1>2. /\ \A st \in State : /\ Moved(st) \in Snapshot
                           /\ Moved(st).ver = server.ver + 1 /\ Moved(st).ses = server.ses
                           /\ Moved(st).st = st
      /\ SessionOpened \in Snapshot
      /\ SessionOpened.ver = server.ver + 1 /\ SessionOpened.ses = server.ses + 1
      /\ SessionOpened.st = "SESSION_ACTIVE"
  <2>1. ASSUME NEW st \in State
        PROVE  /\ Moved(st) \in Snapshot
               /\ Moved(st).ver = server.ver + 1 /\ Moved(st).ses = server.ses
               /\ Moved(st).st = st
    <3>1. Moved(st) = [server EXCEPT !.ver = server.ver + 1, !.st = st]
      BY DEF Moved
    <3>2. /\ Moved(st).ver = server.ver + 1 /\ Moved(st).ses = server.ses
          /\ Moved(st).st = st
      BY <3>1 DEF Snapshot
    <3>3. Moved(st) \in Snapshot
      <4>1. Moved(st) = [ver |-> server.ver + 1, st |-> st, ses |-> server.ses]
        BY <3>1 DEF Snapshot
      <4>2. server.ver + 1 \in Nat
        BY <1>1
      <4>. HIDE DEF Moved
      <4>. QED  BY <1>1, <4>1, <4>2 DEF Snapshot
    <3>. QED  BY <3>2, <3>3
  <2>2. "SESSION_ACTIVE" \in State
    BY DEF State
  <2>. QED  BY <1>1, <2>1, <2>2 DEF SessionOpened, Snapshot
<1>3. \/ after = server
      \/ type = "SCAN" /\ server.st = "WAIT_EMPLOYEE" /\ after = Moved("WAIT_OPERATION")
      \/ type = "SCAN" /\ server.st = "WAIT_OPERATION" /\ after = SessionOpened
      \/ type = "FINISH_REQUESTED" /\ server.st = "SESSION_ACTIVE" /\ after = Moved("QUANTITY_INPUT")
      \/ type = "QUANTITY_SUBMITTED" /\ server.st = "QUANTITY_INPUT" /\ after = Moved("WAIT_EMPLOYEE")
      \/ type = "CANCEL_REQUESTED" /\ after = Moved("WAIT_EMPLOYEE")
  BY DEF Outcomes
<1>. QED  BY <1>1, <1>2, <1>3 DEF Snapshot, State, Open

(* A new version of the server leaves everything else in its past.           *)
LEMMA ServerMoves ==
  ASSUME EntryInv, server' \in Snapshot, server'.ver = server.ver + 1
  PROVE  /\ \A s : Past(s) => s \in Snapshot /\ s.ver <= server'.ver /\ s.ver # server'.ver
         /\ \A i \in DOMAIN sent : sent[i].ver \in Nat /\ sent[i].ver <= server'.ver
                                   /\ sent[i].ver # server'.ver
  BY DEF EntryInv, EntryTypes, TypeOK, Past, ClaimsInv, Snapshot

(* /events.  Figures that are booked were made in the session they are       *)
(* booked for: they claim the version the server is at.                      *)
LEMMA ServeKeeps ==
  ASSUME EntryInv, NEW e \in Event, e \in DOMAIN sent, NEW a \in AnswersTo(e), Serve(e, a),
         UNCHANGED <<projection, sent>>
  PROVE  /\ GoodAnswer(a)'
         /\ Past(projection)'
         /\ \A x \in Event : (answers[x] # None => GoodAnswer(answers[x]))'
         /\ DOMAIN answers' = Event /\ booked' \subseteq Event \X Nat /\ server' \in Snapshot
         /\ ClaimsInv' /\ BookedInv' /\ BookedForItsSession'
         /\ server.st \in Open /\ server'.st \notin Open => booked' # booked
<1>. USE DEF EntryInv
<1>0. server \in Snapshot /\ sent[e].type \in Type /\ sent[e].ver \in Nat /\ sent[e].ver <= server.ver
  BY DEF EntryTypes, TypeOK, ClaimsInv
<1>1. answers' = [answers EXCEPT ![e] = a] /\ DOMAIN answers = Event
  BY DEF Serve, EntryTypes
<1>2. CASE server' = server /\ booked' = booked /\ GoodAnswer(a)
  BY <1>0, <1>1, <1>2
  DEF SnapshotsInv, GoodAnswer, Past, EntryTypes, ClaimsInv, BookedInv, BookedForItsSession
<1>3. CASE answers[e] # None
  <2>1. a = answers[e]
    BY <1>3 DEF AnswersTo
  <2>. QED  BY <1>2, <1>3, <2>1 DEF Serve, SnapshotsInv
<1>4. CASE answers[e] = None /\ sent[e].ver < server.ver
  <2>1. a.out = "CONFLICT_RESYNC"
    BY <1>4 DEF AnswersTo, FirstAnswers
  <2>. QED  BY <1>2, <1>4, <2>1 DEF Serve, GoodAnswer, Answered
<1>5. CASE answers[e] = None /\ ~(sent[e].ver < server.ver)
  <2>1. PICK after \in Outcomes(sent[e].type) :
          a = [out |-> IF after = server THEN "BUSINESS_REJECTED" ELSE "SUCCESS", snap |-> after]
    BY <1>5 DEF AnswersTo, FirstAnswers
  <2>2. CASE after = server
    <3>1. a.out = "BUSINESS_REJECTED" /\ a.snap = server
      BY <2>1, <2>2
    <3>2. GoodAnswer(a)
      BY <1>0, <3>1 DEF GoodAnswer, Past, Snapshot
    <3>. QED  BY <1>2, <1>5, <3>1, <3>2 DEF Serve
  <2>3. CASE after # server
    <3>1. a.out = "SUCCESS" /\ a.snap = after
      BY <2>1, <2>3
    <3>2. /\ server' = after
          /\ booked' = IF sent[e].type = "QUANTITY_SUBMITTED"
                         THEN booked \cup {<<e, server.ses>>} ELSE booked
      BY <1>5, <3>1 DEF Serve
    <3>3. /\ after \in Snapshot /\ after.ver = server.ver + 1
          /\ after.ses \in {server.ses, server.ses + 1}
          /\ after.st \in Open =>
               \/ after.ses = server.ses + 1
               \/ after.ses = server.ses /\ server.st \in Open
          /\ sent[e].type = "QUANTITY_SUBMITTED" =>
               server.st = "QUANTITY_INPUT" /\ after.st = "WAIT_EMPLOYEE" /\ after.ses = server.ses
          /\ server.st \in Open /\ after.st \notin Open =>
               sent[e].type \in {"QUANTITY_SUBMITTED", "CANCEL_REQUESTED"}
      BY <1>0, <2>3, OutcomesMove
    <3>4. /\ \A s : Past(s) => s \in Snapshot /\ s.ver <= server'.ver /\ s.ver # server'.ver
          /\ \A i \in DOMAIN sent : sent[i].ver \in Nat /\ sent[i].ver <= server'.ver
                                    /\ sent[i].ver # server'.ver
      BY <3>2, <3>3, ServerMoves
    <3>5. server' \in Snapshot /\ server.ses \in Nat
      BY <1>0, <3>2, <3>3 DEF Snapshot
    <3>6. GoodAnswer(a)'
      BY <3>1, <3>2, <3>5 DEF GoodAnswer, Past, Snapshot
    <3>7. Past(projection)'
      BY <3>4 DEF Past, SnapshotsInv
    <3>8. \A x \in Event : (answers[x] # None => GoodAnswer(answers[x]))'
      <4>. SUFFICES ASSUME NEW x \in Event, answers'[x] # None PROVE GoodAnswer(answers[x])'
        OBVIOUS
      <4>1. CASE x = e
        BY <1>1, <3>6, <4>1
      <4>2. CASE x # e
        <5>1. answers'[x] = answers[x] /\ GoodAnswer(answers[x])
          BY <1>1, <4>2 DEF SnapshotsInv
        <5>. QED  BY <3>4, <5>1 DEF GoodAnswer, Past
      <4>. QED  BY <4>1, <4>2
    <3>9. ClaimsInv'
      BY <3>4 DEF ClaimsInv
    <3>10. sent[e].ses = server.ses /\ (sent[e].type = "CANCEL_REQUESTED" => server.st = "WAIT_OPERATION")
      BY <1>0, <1>5 DEF ClaimsInv, Snapshot
    <3>11. \A b \in booked : b[1] \in DOMAIN sent /\ b[2] \in Nat /\ b[2] <= server.ses
                             /\ (server.st \in Open => b[2] < server.ses)
      BY DEF BookedInv, EntryTypes
    <3>12. CASE sent[e].type = "QUANTITY_SUBMITTED"
      <4>1. booked' = booked \cup {<<e, server.ses>>} /\ server.st \in Open
        BY <3>2, <3>3, <3>12 DEF Open
      <4>2. <<e, server.ses>> \notin booked
        BY <3>5, <3>11, <4>1
      <4>3. BookedInv'
        BY <3>2, <3>3, <3>5, <3>11, <3>12, <4>1 DEF BookedInv, Open
      <4>4. BookedForItsSession'
        <5>1. \A b \in booked' : sent'[b[1]].ses = b[2]
          BY <3>10, <4>1 DEF BookedForItsSession
        <5>2. ASSUME NEW b \in booked', NEW c \in booked', b[2] = c[2] PROVE b = c
          <6>1. CASE b \in booked /\ c \in booked
            BY <5>2, <6>1 DEF BookedForItsSession
          <6>2. CASE b = <<e, server.ses>> \/ c = <<e, server.ses>>
            BY <3>5, <3>11, <4>1, <5>2, <6>2
          <6>. QED  BY <4>1, <6>1, <6>2
        <5>. QED  BY <5>1, <5>2 DEF BookedForItsSession
      <4>5. booked' # booked /\ booked' \subseteq Event \X Nat
        BY <3>5, <4>1, <4>2 DEF EntryTypes
      <4>. QED  BY <1>1, <3>5, <3>6, <3>7, <3>8, <3>9, <4>3, <4>4, <4>5
    <3>13. CASE sent[e].type # "QUANTITY_SUBMITTED"
      <4>1. booked' = booked
        BY <3>2, <3>13
      <4>2. BookedInv'
        BY <3>2, <3>3, <3>5, <3>11, <4>1 DEF BookedInv
      <4>3. BookedForItsSession' /\ booked' \subseteq Event \X Nat
        BY <4>1 DEF BookedForItsSession, EntryTypes
      <4>4. ~(server.st \in Open /\ server'.st \notin Open)
        BY <3>2, <3>3, <3>10, <3>13 DEF Open
      <4>. QED  BY <1>1, <3>5, <3>6, <3>7, <3>8, <3>9, <4>2, <4>3, <4>4
    <3>. QED  BY <3>12, <3>13
  <2>. QED  BY <2>2, <2>3
<1>. QED  BY <1>3, <1>4, <1>5

-----------------------------------------------------------------------------
(* The network and the loop.                                                 *)

(* What is taken off a queue was in it.                                      *)
LEMMA PickKeeps ==
  ASSUME EntryTypes, NEW r \in Request, Pick(r)
  PROVE  /\ r.kind = "EVENT" => r.id \in DOMAIN sent /\ r.id \in Event
         /\ high' \in Seq(Request) /\ Len(high') <= HighDepth
         /\ \A i \in DOMAIN high' : high'[i].kind = "EVENT" => high'[i].id \in DOMAIN sent
         /\ low' \in Event \cup {None} /\ (low' # None => low' \in DOMAIN sent)
<1>0. /\ high \in Seq(Request) /\ Len(high) <= HighDepth /\ low \in Event \cup {None}
      /\ RequestsInv
  BY DEF EntryTypes, TypeOK
<1>1. CASE high # <<>> /\ r = Head(high) /\ high' = Tail(high) /\ low' = low
  <2>1. /\ Len(high) \in Nat \ {0} /\ DOMAIN high = 1..Len(high)
        /\ r = high[1] /\ Len(high') = Len(high) - 1 /\ high' \in Seq(Request)
        /\ \A i \in 1..(Len(high) - 1) : high'[i] = high[i + 1]
        /\ DOMAIN high' = 1..(Len(high) - 1)
    BY <1>0, <1>1
  <2>2. \A i \in DOMAIN high' : i + 1 \in DOMAIN high /\ high'[i] = high[i + 1]
    BY <2>1
  <2>3. 1 \in DOMAIN high
    BY <2>1
  <2>4. r.kind = "EVENT" => r.id \in Event
    BY DEF Request
  <2>5. Len(high') <= HighDepth
    BY <1>0, <2>1, EntryAssumption
  <2>. QED  BY <1>0, <1>1, <2>1, <2>2, <2>3, <2>4, <2>5 DEF RequestsInv
<1>2. CASE low # None /\ r = [kind |-> "EVENT", id |-> low] /\ low' = None /\ high' = high
  BY <1>0, <1>2 DEF RequestsInv
<1>. QED  BY <1>1, <1>2 DEF Pick

(* A request of an event that was served, whether its answer comes or not.   *)
LEMMA ServedKeeps ==
  ASSUME EntryInv, NEW r \in Request, Pick(r), r.kind = "EVENT",
         NEW a \in AnswersTo(r.id), Serve(r.id, a),
         UNCHANGED <<entry, projection, resyncing, sent, unsynced>>,
         spent' \in [lost : Nat, boots : Nat, resets : Nat],
         slot' # None => (GoodAnswer(a)' => GoodAnswer(slot)')
  PROVE  /\ EntryInv'
         /\ server.st \in Open /\ server'.st \notin Open => booked' # booked
<1>. USE DEF EntryInv
<1>1. /\ r.id \in DOMAIN sent /\ r.id \in Event
      /\ high' \in Seq(Request) /\ Len(high') <= HighDepth
      /\ \A i \in DOMAIN high' : high'[i].kind = "EVENT" => high'[i].id \in DOMAIN sent
      /\ low' \in Event \cup {None} /\ (low' # None => low' \in DOMAIN sent)
  BY PickKeeps
<1>2. /\ GoodAnswer(a)'
      /\ Past(projection)'
      /\ \A x \in Event : (answers[x] # None => GoodAnswer(answers[x]))'
      /\ DOMAIN answers' = Event /\ booked' \subseteq Event \X Nat /\ server' \in Snapshot
      /\ ClaimsInv' /\ BookedInv' /\ BookedForItsSession'
      /\ server.st \in Open /\ server'.st \notin Open => booked' # booked
  BY <1>1, ServeKeeps
<1>3. EntryTypes'
  BY <1>1, <1>2 DEF EntryTypes, TypeOK, SentType, RequestsInv
<1>4. SnapshotsInv'
  BY <1>2 DEF SnapshotsInv
<1>. QED  BY <1>2, <1>3, <1>4

LEMMA SpendType ==
  ASSUME EntryTypes, NEW what \in {"lost", "boots", "resets"}, NEW most, Spend(what, most)
  PROVE  /\ spent' \in [lost : Nat, boots : Nat, resets : Nat]
         /\ spent'[what] > spent[what]
  BY DEF EntryTypes, Spend

(* Neither keys nor answers close a session; the server does, by an event.   *)
ClosesByBooking ==
  server.st \in Open /\ server'.st \notin Open => booked' # booked \/ spent'.resets > spent.resets

LEMMA ExecuteKeeps ==
  ASSUME EntryInv, Execute \/ ExecuteFails
  PROVE  EntryInv' /\ ClosesByBooking
<1>. USE DEF EntryInv
<1>1. PICK r \in Request :
        /\ Pick(r)
        /\ \/ /\ Execute
              /\ IF r.kind = "EVENT"
                   THEN \E a \in AnswersTo(r.id) : Serve(r.id, a) /\ Deposit(r, a.out, a.snap)
                   ELSE Deposit(r, "SUCCESS", server) /\ UNCHANGED backend
           \/ /\ ExecuteFails
              /\ Deposit(r, "FAILED", None)
              /\ \/ UNCHANGED backend
                 \/ r.kind = "EVENT" /\ \E a \in AnswersTo(r.id) : Serve(r.id, a)
  BY DEF Execute, ExecuteFails
<1>2. UNCHANGED <<entry, projection, resyncing, sent, unsynced>>
  BY DEF Execute, ExecuteFails
<1>3. spent' \in [lost : Nat, boots : Nat, resets : Nat]
  BY SpendType DEF Execute, ExecuteFails, EntryTypes
<1>4. ASSUME NEW a \in AnswersTo(r.id), r.kind = "EVENT", Serve(r.id, a),
             Deposit(r, a.out, a.snap) \/ Deposit(r, "FAILED", None)
      PROVE  EntryInv' /\ ClosesByBooking
  <2>1. GoodAnswer(a)' => GoodAnswer(slot)'
    BY <1>4 DEF Deposit, GoodAnswer, Answered, Past
  <2>. QED  BY <1>1, <1>2, <1>3, <1>4, <2>1, ServedKeeps DEF ClosesByBooking
<1>5. ASSUME UNCHANGED backend, Deposit(r, "SUCCESS", server) \/ Deposit(r, "FAILED", None)
      PROVE  EntryInv' /\ ClosesByBooking
  <2>1. EntryTypes'
    BY <1>1, <1>2, <1>3, <1>5, PickKeeps DEF EntryTypes, TypeOK, SentType, RequestsInv, backend
  <2>2. Past(server)
    BY DEF Past, EntryTypes, TypeOK, Snapshot
  <2>3. GoodAnswer(slot')
    BY <1>5, <2>2 DEF Deposit, GoodAnswer, Answered
  <2>4. EntryInv'
    BY <1>2, <1>5, <2>1, <2>3, ServerStays DEF SnapshotsInv
  <2>. QED  BY <1>5, <2>4 DEF ClosesByBooking, backend
<1>. QED  BY <1>1, <1>4, <1>5

LEMMA QueueKeeps ==
  ASSUME EntryInv, AskBootstrap \/ \E e \in Event : Replay(e)
  PROVE  EntryInv'
<1>. USE DEF EntryInv
<1>0. EntryTypes /\ TypeOK /\ RequestsInv
  BY DEF EntryTypes
<1>1. CASE AskBootstrap
  <2> DEFINE r == [kind |-> "BOOTSTRAP", id |-> 0]
  <2>1. high' = HighAfter(r) /\ r \in Request
    BY <1>1, Requests DEF AskBootstrap
  <2>2. spent' \in [lost : Nat, boots : Nat, resets : Nat]
    BY <1>0, <1>1, SpendType DEF AskBootstrap
  <2>3. r.kind # "EVENT"
    OBVIOUS
  <2>. HIDE DEF r
  <2>4. /\ high' \in Seq(Request) /\ Len(high') <= HighDepth
        /\ \A i \in DOMAIN high' : (i \in DOMAIN high /\ high'[i] = high[i]) \/ high'[i] = r
    BY <1>0, <2>1, HighAfterRequest DEF TypeOK
  <2>5. UNCHANGED <<entry, projection, resyncing, sent, unsynced, low, slot, backend>>
    BY <1>1 DEF AskBootstrap
  <2>6. EntryTypes'
    BY <1>0, <2>2, <2>3, <2>4, <2>5 DEF EntryTypes, TypeOK, SentType, RequestsInv, backend
  <2>. QED  BY <2>5, <2>6, ServerStays DEF SnapshotsInv
<1>2. ASSUME NEW e \in Event, Replay(e) PROVE EntryInv'
  <2>1. /\ UNCHANGED <<entry, projection, resyncing, sent, unsynced, high, slot, backend, spent>>
        /\ low' = e /\ e \in DOMAIN sent
    BY <1>0, <1>2 DEF Replay, TypeOK
  <2>2. EntryTypes'
    BY <1>0, <2>1 DEF EntryTypes, TypeOK, SentType, RequestsInv, backend
  <2>. QED  BY <2>1, <2>2, ServerStays DEF SnapshotsInv
<1>. QED  BY <1>1, <1>2

LEMMA PollKeeps ==
  ASSUME EntryInv, PollResult
  PROVE  EntryInv'
<1>. USE DEF EntryInv
<1>0. EntryTypes /\ TypeOK /\ RequestsInv /\ Past(projection) /\ GoodAnswer(slot)
  BY DEF EntryTypes, SnapshotsInv, PollResult, TakeBootstrap, TakeStateFetch, TakeFailure,
         TakeConflict, TakeAnswer, TakeStaleAnswer, TakeResult
<1>1. slot' = None /\ UNCHANGED <<low, sent, backend, spent>>
  BY DEF PollResult, TakeBootstrap, TakeStateFetch, TakeFailure, TakeConflict, TakeAnswer,
         TakeStaleAnswer, TakeResult
<1>2. Past(projection')
  <2>1. projection' = projection \/ (projection' = slot.snap /\ slot.out \in Answered)
    BY DEF PollResult, TakeBootstrap, TakeStateFetch, TakeFailure, TakeConflict, TakeAnswer,
           TakeStaleAnswer, Answered
  <2>. QED  BY <1>0, <2>1 DEF GoodAnswer
<1>3. entry' \in [step : Step, ses : Nat] /\ unsynced' \subseteq DOMAIN sent
  BY <1>0 DEF PollResult, TakeBootstrap, TakeStateFetch, TakeFailure, TakeConflict, TakeAnswer,
              TakeStaleAnswer, TypeOK, FreshEntry, Step
<1>4. resyncing' \in BOOLEAN
  BY <1>0 DEF PollResult, TakeBootstrap, TakeStateFetch, TakeFailure, TakeConflict, TakeAnswer,
              TakeStaleAnswer, StartResync, TypeOK
<1>5. /\ high' \in Seq(Request) /\ Len(high') <= HighDepth
      /\ \A i \in DOMAIN high' : high'[i].kind = "EVENT" => high'[i].id \in DOMAIN sent
  <2> DEFINE r == [kind |-> "STATE_FETCH", id |-> 0]
  <2>1. high' = high \/ high' = HighAfter(r)
    BY DEF PollResult, TakeBootstrap, TakeStateFetch, TakeFailure, TakeConflict, TakeAnswer,
           TakeStaleAnswer, StartResync
  <2>2. r \in Request /\ r.kind # "EVENT"
    BY Requests
  <2>. HIDE DEF r
  <2>. QED  BY <1>0, <2>1, <2>2, HighAfterRequest DEF TypeOK, RequestsInv
<1>6. EntryTypes'
  BY <1>0, <1>1, <1>2, <1>3, <1>4, <1>5
  DEF EntryTypes, TypeOK, SentType, RequestsInv, backend, Past
<1>. QED  BY <1>1, <1>2, <1>6, ServerStays

LEMMA ResetKeeps ==
  ASSUME EntryInv, SupervisorResets
  PROVE  EntryInv' /\ ClosesByBooking
<1>. USE DEF EntryInv
<1>0. EntryTypes /\ TypeOK /\ server \in Snapshot
  BY DEF EntryTypes, TypeOK
<1>1. /\ server' = Moved("WAIT_EMPLOYEE")
      /\ UNCHANGED <<entry, projection, resyncing, sent, unsynced, network, answers, booked>>
      /\ spent' \in [lost : Nat, boots : Nat, resets : Nat] /\ spent'.resets > spent.resets
  BY <1>0, SpendType DEF SupervisorResets
<1>2. /\ server' \in Snapshot /\ server'.ver = server.ver + 1 /\ server'.st = "WAIT_EMPLOYEE"
      /\ server'.ses = server.ses
  <2>1. Moved("WAIT_EMPLOYEE") = [ver |-> server.ver + 1, st |-> "WAIT_EMPLOYEE", ses |-> server.ses]
    <3>1. Moved("WAIT_EMPLOYEE") = [server EXCEPT !.ver = server.ver + 1, !.st = "WAIT_EMPLOYEE"]
      BY DEF Moved
    <3>. QED  BY <1>0, <3>1 DEF Snapshot
  <2>2. server.ver + 1 \in Nat /\ server.ses \in Nat
    BY <1>0 DEF Snapshot
  <2>. QED  BY <1>1, <2>1, <2>2 DEF Snapshot, State
<1>3. /\ \A s : Past(s) => s \in Snapshot /\ s.ver <= server'.ver /\ s.ver # server'.ver
      /\ \A i \in DOMAIN sent : sent[i].ver \in Nat /\ sent[i].ver <= server'.ver
                                /\ sent[i].ver # server'.ver
  BY <1>2, ServerMoves
<1>4. EntryTypes'
  BY <1>0, <1>1, <1>2 DEF EntryTypes, TypeOK, SentType, RequestsInv, network
<1>5. SnapshotsInv'
  BY <1>1, <1>3 DEF SnapshotsInv, GoodAnswer, Past, network
<1>6. ClaimsInv'
  BY <1>1, <1>3 DEF ClaimsInv
<1>7. BookedInv' /\ BookedForItsSession'
  BY <1>1, <1>2 DEF BookedInv, BookedForItsSession, Open
<1>. QED  BY <1>1, <1>4, <1>5, <1>6, <1>7 DEF ClosesByBooking

LEMMA StepEntryInv ==
  ASSUME EntryInv, [Next]_vars
  PROVE  EntryInv' /\ [ClosesByBooking]_vars
<1>1. CASE Scan \/ Keys \/ IdleTimeout
  <2>1. server' = server
    BY <1>1
    DEF Scan, Keys, CancelKey, FinishKey, ConfirmGood, ConfirmDefect, Repairable, NotRepairable,
        ConfirmRework, Confirm, Submit, Restart, IdleTimeout, Send, Typing, backend
  <2>. QED  BY <1>1, <2>1, InputKeeps DEF ClosesByBooking
<1>2. CASE Execute \/ ExecuteFails
  BY <1>2, ExecuteKeeps
<1>3. CASE AskBootstrap \/ \E e \in Event : Replay(e)
  <2>1. server' = server
    BY <1>3 DEF AskBootstrap, Replay, backend
  <2>. QED  BY <1>3, <2>1, QueueKeeps DEF ClosesByBooking
<1>4. CASE PollResult
  <2>1. server' = server
    BY <1>4 DEF PollResult, TakeBootstrap, TakeStateFetch, TakeFailure, TakeConflict, TakeAnswer,
                TakeStaleAnswer, TakeResult, backend
  <2>. QED  BY <1>4, <2>1, PollKeeps DEF ClosesByBooking
<1>5. CASE SupervisorResets
  BY <1>5, ResetKeeps
<1>6. CASE UNCHANGED vars
  <2>1. EntryTypes'
    BY <1>6 DEF vars, network, backend, EntryInv, EntryTypes, TypeOK, SentType, RequestsInv
  <2>. QED  BY <1>6, <2>1, ServerStays DEF vars, network, EntryInv, SnapshotsInv
<1>. QED  BY <1>1, <1>2, <1>3, <1>4, <1>5, <1>6 DEF Next, Network

(* Figures are booked once, and for the session that was on the screen when  *)
(* they were sent, however late a replay brings them; for any number of      *)
(* events, failures, bootstraps and resets.                                  *)
THEOREM BookedRight == Spec => []BookedForItsSession
<1>1. EntryInv /\ [Next]_vars => EntryInv'
  BY StepEntryInv
<1>2. EntryInv => BookedForItsSession
  BY DEF EntryInv
<1>. QED  BY EntryInvInit, <1>1, <1>2, PTL DEF Spec

(* An open session ends by its figures being booked, or by a supervisor:     *)
(* a cancellation is of a version in which no session was open.              *)
THEOREM SessionsAreNotDiscarded == Spec => NoSessionDiscarded
<1>1. EntryInv /\ [Next]_vars => EntryInv'
  BY StepEntryInv
<1>2. EntryInv /\ [Next]_vars =>
        [server.st \in Open /\ server'.st \notin Open
           => booked' # booked \/ spent'.resets > spent.resets]_vars
  BY StepEntryInv DEF ClosesByBooking
<1>. QED  BY EntryInvInit, <1>1, <1>2, PTL DEF Spec, NoSessionDiscarded
-----------------------------------------------------------------------------
(* The display.  `Kept` is what every handler needs of the record `ui`,      *)
(* `Timed` that the history variable errorFor is the age of the view that is *)
(* up, and `Faithful` is ShownIsHeld of a record.  Whatever ends in a        *)
(* redraw needs only the first two of the record it draws.                   *)

Fields ==
  {"safe", "identity", "mismatch", "resyncing", "snap", "bundle", "step", "buf", "defect", "rework",
   "errorUp", "errorAge", "errorFor", "holding", "pending", "submitted", "fetched", "over", "star",
   "rare", "display"}

Kept(u) ==
  /\ DOMAIN u = Fields
  /\ u.snap \in States \cup {NoState} /\ u.step \in QtySteps
  /\ u.buf \in Figures \cup {Blank} /\ u.defect \in Figures /\ u.rework \in Figures
  /\ u.over \in Overlays /\ u.star \in {"up", "down", "counting"}
  /\ u.errorAge \in Nat /\ u.errorFor \in Nat

Timed(u, n) ==
  /\ u.errorUp => u.errorFor = u.errorAge /\ u.errorAge < n
  /\ ~u.errorUp => u.errorFor = 0 /\ u.errorAge = 0

Faithful(u) ==
  /\ u.display.id \in States \cup (QtySteps \ {"GOOD"}) =>
       TakesOver(u) = {} /\ u.display = StateScreen(u)
  /\ u.display = FinishScreen => TakesOver(u) = {} /\ u.holding

Ready(u, n) == Kept(u) /\ Timed(u, n)
Okay(u, n)  == Ready(u, n) /\ Faithful(u)

OtherScreens ==
  {WaitingScreen, ScanReceivedScreen, ScanResultScreen, SafeModeScreen, MismatchScreen, IdentityScreen,
   ResyncingScreen, ErrorScreen, HoldScreen, MenuScreen, InfoScreen, PortalScreen}

LEMMA OtherScreensFact ==
  ASSUME NEW s \in OtherScreens
  PROVE  s.id \notin States \cup QtySteps /\ s # FinishScreen
<1>1. /\ s.id \in {"waiting", "scan_received", "scan_result", "safe_mode", "server_mismatch",
                   "identity", "resyncing", "error_view", "wifi_hold_progress", "recovery_menu",
                   "device_info", "wifi_portal"}
  BY DEF OtherScreens, WaitingScreen, ScanReceivedScreen, ScanResultScreen, SafeModeScreen,
         MismatchScreen, IdentityScreen, ResyncingScreen, ErrorScreen, HoldScreen, MenuScreen,
         InfoScreen, PortalScreen, Screen
<1>2. FinishScreen.id = "finish_result"
  BY DEF FinishScreen, Screen
<1>. QED  BY <1>1, <1>2, NamesAssumption DEF QtySteps

LEMMA TakeoverScreens ==
  ASSUME NEW u
  PROVE  TakesOver(u) \subseteq OtherScreens
BY DEF TakesOver, OtherScreens

(* A state's screen is never the finish banner's.                            *)
LEMMA StateScreenFact ==
  ASSUME NEW u, Kept(u), TakesOver(u) = {}
  PROVE  StateScreen(u) # FinishScreen
<1>1. u.snap \in States
  BY DEF Kept, TakesOver
<1>2. StateScreen(u).id \in {u.snap, u.step}
  BY DEF StateScreen, StepScreen, BusinessScreen, BundleScreen, BuiltInScreen
<1>3. FinishScreen.id = "finish_result"
  BY DEF FinishScreen, Screen
<1>. QED  BY <1>1, <1>2, <1>3, NamesAssumption DEF Kept, QtySteps

(* The state's screen and what takes the display over depend on few fields.  *)
LEMMA SameScreen ==
  ASSUME NEW u, NEW v, v.safe = u.safe, v.mismatch = u.mismatch, v.identity = u.identity,
         v.resyncing = u.resyncing, v.snap = u.snap
  PROVE  /\ TakesOver(v) = TakesOver(u)
         /\ v.step = u.step /\ v.buf = u.buf /\ v.defect = u.defect /\ v.rework = u.rework
              /\ v.bundle = u.bundle => StateScreen(v) = StateScreen(u)
<1>1. TakesOver(v) = TakesOver(u)
  BY DEF TakesOver
<1>2. ASSUME v.step = u.step, v.buf = u.buf, v.defect = u.defect, v.rework = u.rework,
             v.bundle = u.bundle
      PROVE  StateScreen(v) = StateScreen(u)
  <2>1. StepFigures(v) = StepFigures(u)
    BY <1>2 DEF StepFigures
  <2>. HIDE DEF StepFigures
  <2>. QED  BY <1>2, <2>1 DEF StateScreen, StepScreen, BusinessScreen, BundleScreen, BuiltInScreen,
                             TypedShown
<1>. QED  BY <1>1, <1>2

(* A draw changes the display and nothing else.                              *)
LEMMA DrawnIs ==
  ASSUME NEW u, NEW n, Ready(u, n), NEW s
  PROVE  /\ Ready(Drawn(u, s), n) /\ Drawn(u, s).display = s /\ Drawn(u, s).holding = u.holding
         /\ TakesOver(Drawn(u, s)) = TakesOver(u) /\ StateScreen(Drawn(u, s)) = StateScreen(u)
<1>1. Ready(Drawn(u, s), n) /\ Drawn(u, s).display = s
  BY DEF Drawn, Ready, Kept, Timed, Fields
<1>2. LET d == Drawn(u, s)
      IN  /\ d.safe = u.safe /\ d.mismatch = u.mismatch /\ d.identity = u.identity
          /\ d.resyncing = u.resyncing /\ d.snap = u.snap /\ d.step = u.step /\ d.buf = u.buf
          /\ d.defect = u.defect /\ d.rework = u.rework /\ d.bundle = u.bundle
          /\ d.holding = u.holding
  BY DEF Drawn, Ready, Kept, Fields
<1>. QED  BY <1>1, <1>2, SameScreen

(* Drawing another screen is always right.                                   *)
LEMMA DrawnOther ==
  ASSUME NEW u, NEW n, Ready(u, n), NEW s \in OtherScreens
  PROVE  Okay(Drawn(u, s), n) /\ Drawn(u, s).display = s
BY DrawnIs, OtherScreensFact DEF Okay, Faithful

LEMMA RenderKeeps ==
  ASSUME NEW u, NEW n \in Nat \ {0}, Ready(u, n), NEW isError \in BOOLEAN
  PROVE  Okay(Render(u, isError), n)
<1>. DEFINE calm == [u EXCEPT !.errorUp = FALSE, !.errorAge = 0, !.errorFor = 0]
<1>1. /\ Ready(calm, n) /\ ~calm.errorUp /\ calm.holding = u.holding
      /\ calm.safe = u.safe /\ calm.mismatch = u.mismatch /\ calm.identity = u.identity
      /\ calm.resyncing = u.resyncing /\ calm.snap = u.snap /\ calm.step = u.step /\ calm.buf = u.buf
      /\ calm.defect = u.defect /\ calm.rework = u.rework /\ calm.bundle = u.bundle
  BY DEF Ready, Kept, Timed, Fields
<1>. HIDE DEF calm
<1>2. TakesOver(calm) = TakesOver(u) /\ StateScreen(calm) = StateScreen(u)
  BY <1>1, SameScreen
<1>3. CASE TakesOver(u) # {}
  <2>1. Render(u, isError) = Drawn(calm, CHOOSE s \in TakesOver(u) : TRUE)
    BY <1>3 DEF Render, calm
  <2>2. (CHOOSE s \in TakesOver(u) : TRUE) \in OtherScreens
    BY <1>3, TakeoverScreens
  <2>. QED  BY <1>1, <2>1, <2>2, DrawnOther
<1>4. CASE TakesOver(u) = {} /\ isError
  <2>1. Render(u, isError) = ShowError(u)
    BY <1>4 DEF Render
  <2>2. ShowError(u).display = ErrorScreen
    BY DEF ShowError, Ready, Kept, Fields
  <2>3. Ready(ShowError(u), n)
    BY DEF ShowError, Ready, Kept, Timed, Fields
  <2>4. ErrorScreen \in OtherScreens
    BY DEF OtherScreens
  <2>. QED  BY <2>1, <2>2, <2>3, <2>4, OtherScreensFact DEF Okay, Faithful
<1>5. CASE TakesOver(u) = {} /\ ~isError /\ u.holding
  <2>1. Render(u, isError) = Drawn(calm, FinishScreen)
    BY <1>5 DEF Render, calm
  <2>2. FinishScreen.id = "finish_result"
    BY DEF FinishScreen, Screen
  <2>3. FinishScreen.id \notin States \cup QtySteps
    BY <2>2, NamesAssumption DEF QtySteps
  <2>. DEFINE d == Drawn(calm, FinishScreen)
  <2>4. Ready(d, n) /\ d.display = FinishScreen /\ d.holding = u.holding /\ TakesOver(d) = {}
    <3>1. /\ Ready(d, n) /\ d.display = FinishScreen /\ d.holding = calm.holding
          /\ TakesOver(d) = TakesOver(calm)
      BY <1>1, DrawnIs
    <3>. HIDE DEF d
    <3>. QED  BY <1>1, <1>2, <1>5, <3>1
  <2>. HIDE DEF d
  <2>5. Faithful(d)
    BY <1>5, <2>3, <2>4 DEF Faithful
  <2>. QED  BY <2>1, <2>4, <2>5 DEF Okay, d
<1>6. CASE TakesOver(u) = {} /\ ~isError /\ ~u.holding
  <2>1. Render(u, isError) = Drawn(calm, StateScreen(u))
    BY <1>6 DEF Render, calm
  <2>2. StateScreen(u) # FinishScreen
    BY <1>6, StateScreenFact DEF Ready
  <2>. QED  BY <1>1, <1>2, <1>6, <2>1, <2>2, DrawnIs DEF Okay, Faithful
<1>. QED  BY <1>3, <1>4, <1>5, <1>6

LEMMA RefreshKeeps ==
  ASSUME NEW u, NEW n \in Nat \ {0}, Ready(u, n)
  PROVE  Okay(Refresh(u), n)
BY RenderKeeps DEF Refresh

(* A redraw that is not of an error ends the one that was up.                *)
LEMMA RefreshCalms ==
  ASSUME NEW u, NEW n, Ready(u, n)
  PROVE  ~Refresh(u).errorUp
<1>. DEFINE calm == [u EXCEPT !.errorUp = FALSE, !.errorAge = 0, !.errorFor = 0]
<1>1. DOMAIN calm = Fields /\ calm.errorUp = FALSE
  BY DEF Ready, Kept, Fields
<1>2. \E s : Refresh(u) = Drawn(calm, s)
  BY Zenon DEF Refresh, Render
<1>. HIDE DEF calm
<1>. QED  BY <1>1, <1>2 DEF Drawn, Fields

-----------------------------------------------------------------------------
(* One lemma per handler.                                                    *)

LEMMA SentKeeps ==
  ASSUME NEW u, NEW n \in Nat \ {0}, Ready(u, n), NEW kind \in {"SCAN", "KEY", "QUANTITY"},
         NEW outcome \in Sends, kind = "SCAN" => u.display = ScanReceivedScreen
  PROVE  Okay(Sent(u, kind, outcome), n)
<1>. DEFINE v == [u EXCEPT !.holding = FALSE]
            w == [v EXCEPT !.submitted = (kind = "QUANTITY"), !.pending = (outcome = "sent")]
<1>1. Ready(v, n) /\ v.display = u.display
  BY DEF Ready, Kept, Timed, Fields
<1>. HIDE DEF v
<1>2. Ready(w, n) /\ w.display = u.display
  BY <1>1 DEF Ready, Kept, Timed, Fields
<1>. HIDE DEF w
<1>3. \/ Sent(u, kind, outcome) = Render(v, TRUE)
      \/ Sent(u, kind, outcome) = w /\ kind = "SCAN"
      \/ Sent(u, kind, outcome) = Refresh(w)
  BY DEF Sent, v, w
<1>4. Okay(Render(v, TRUE), n) /\ Okay(Refresh(w), n)
  BY <1>1, <1>2, RenderKeeps, RefreshKeeps
<1>5. kind = "SCAN" => Okay(w, n)
  <2>1. ScanReceivedScreen \in OtherScreens
    BY DEF OtherScreens
  <2>. QED  BY <1>2, <2>1, OtherScreensFact DEF Okay, Faithful
<1>. QED  BY <1>3, <1>4, <1>5

LEMMA ScanKeeps ==
  ASSUME NEW u, NEW n \in Nat \ {0}, Okay(u, n), NEW outcome \in Sends
  PROVE  Okay(HandleScan(u, outcome), n)
<1>1. ScanResultScreen \in OtherScreens /\ ScanReceivedScreen \in OtherScreens
  BY DEF OtherScreens
<1>2. \/ HandleScan(u, outcome) = u
      \/ HandleScan(u, outcome) = Drawn(u, ScanResultScreen)
      \/ HandleScan(u, outcome) = Sent(Drawn(u, ScanReceivedScreen), "SCAN", outcome)
  BY DEF HandleScan
<1>3. Okay(Drawn(u, ScanResultScreen), n) /\ Okay(Drawn(u, ScanReceivedScreen), n)
      /\ Drawn(u, ScanReceivedScreen).display = ScanReceivedScreen
  BY <1>1, DrawnOther DEF Okay
<1>4. Okay(Sent(Drawn(u, ScanReceivedScreen), "SCAN", outcome), n)
  BY <1>3, SentKeeps DEF Okay
<1>. QED  BY <1>2, <1>3, <1>4

(* The fields an entry step may change.                                      *)
LEMMA EntryFields ==
  ASSUME NEW u, NEW n, Ready(u, n), NEW step \in QtySteps, NEW f \in Figures,
         NEW b \in Figures \cup {Blank}
  PROVE  /\ Ready([u EXCEPT !.step = step, !.buf = Blank], n)
         /\ Ready([u EXCEPT !.defect = f], n)
         /\ Ready([u EXCEPT !.rework = f], n)
         /\ Ready([u EXCEPT !.defect = 0, !.rework = 0], n)
         /\ Ready([u EXCEPT !.rework = 0, !.step = step], n)
         /\ Ready([u EXCEPT !.buf = b], n)
         /\ Ready(FreshFlow(u), n)
<1>1. 0 \in Figures /\ "GOOD" \in QtySteps
  BY ScreensAssumption DEF QtySteps
<1>2. Ready([u EXCEPT !.step = step, !.buf = Blank], n)
  BY DEF Ready, Kept, Timed, Fields
<1>3. Ready([u EXCEPT !.defect = f], n) /\ Ready([u EXCEPT !.rework = f], n)
  BY DEF Ready, Kept, Timed, Fields
<1>4. Ready([u EXCEPT !.defect = 0, !.rework = 0], n)
  BY <1>1 DEF Ready, Kept, Timed, Fields
<1>5. Ready([u EXCEPT !.rework = 0, !.step = step], n)
  BY <1>1 DEF Ready, Kept, Timed, Fields
<1>6. Ready([u EXCEPT !.buf = b], n)
  BY DEF Ready, Kept, Timed, Fields
<1>7. Ready(FreshFlow(u), n)
  BY <1>1 DEF FreshFlow, Ready, Kept, Timed, Fields
<1>. QED  BY <1>2, <1>3, <1>4, <1>5, <1>6, <1>7

LEMMA GoToKeeps ==
  ASSUME NEW u, NEW n \in Nat \ {0}, Ready(u, n), NEW step \in QtySteps
  PROVE  Okay(GoTo(u, step), n)
<1>1. 0 \in Figures
  BY ScreensAssumption
<1>. QED  BY <1>1, EntryFields, RefreshKeeps DEF GoTo

LEMMA ConfirmKeeps ==
  ASSUME NEW u, NEW n \in Nat \ {0}, Ready(u, n)
  PROVE  Okay(ConfirmStep(u), n)
<1>1. Typed(u) \in Figures /\ 0 \in Figures
  BY ScreensAssumption DEF Typed, Ready, Kept
<1>2. /\ "DEFECT" \in QtySteps /\ "SUMMARY" \in QtySteps /\ "REWORK_DECISION" \in QtySteps
  BY DEF QtySteps
<1>3. /\ Ready([u EXCEPT !.defect = 0, !.rework = 0], n) /\ Ready([u EXCEPT !.defect = Typed(u)], n)
      /\ Ready([u EXCEPT !.buf = Blank], n) /\ Ready([u EXCEPT !.rework = Typed(u)], n)
  BY <1>1, <1>2, EntryFields
<1>4. /\ Okay(GoTo(u, "DEFECT"), n)
      /\ Okay(GoTo([u EXCEPT !.defect = 0, !.rework = 0], "SUMMARY"), n)
      /\ Okay(GoTo([u EXCEPT !.defect = Typed(u)], "REWORK_DECISION"), n)
      /\ Okay(Render([u EXCEPT !.buf = Blank], TRUE), n)
      /\ Okay(GoTo([u EXCEPT !.rework = Typed(u)], "SUMMARY"), n)
  BY <1>2, <1>3, GoToKeeps, RenderKeeps
<1>. QED  BY <1>4, Zenon DEF ConfirmStep

LEMMA QuantityKeyKeeps ==
  ASSUME NEW u, NEW n \in Nat \ {0}, Okay(u, n), NEW k \in Figures \cup {Hash}, NEW outcome \in Sends
  PROVE  Okay(QuantityKey(u, k, outcome), n)
<1>1. "SUMMARY" \in QtySteps /\ "REWORK" \in QtySteps /\ 0 \in Figures
  BY ScreensAssumption DEF QtySteps
<1>2. Ready(u, n)
  BY DEF Okay
<1>3. Okay(Sent(u, "QUANTITY", outcome), n)
  BY <1>2, SentKeeps
<1>4. Okay(Refresh(FreshFlow(u)), n)
  BY <1>1, <1>2, EntryFields, RefreshKeeps
<1>5. Okay(GoTo(u, "REWORK"), n)
  BY <1>1, <1>2, GoToKeeps
<1>6. Okay(Refresh([u EXCEPT !.rework = 0, !.step = "SUMMARY"]), n)
  BY <1>1, <1>2, EntryFields, RefreshKeeps
<1>7. Okay(ConfirmStep(u), n)
  BY <1>2, ConfirmKeeps
<1>8. k # Hash => Okay(Refresh([u EXCEPT !.buf = k]), n)
  BY <1>1, <1>2, EntryFields, RefreshKeeps
<1>. QED  BY <1>3, <1>4, <1>5, <1>6, <1>7, <1>8, Zenon DEF QuantityKey

LEMMA BusinessKeyKeeps ==
  ASSUME NEW u, NEW n \in Nat \ {0}, Okay(u, n), NEW k \in Figures \cup {Hash}, NEW outcome \in Sends
  PROVE  Okay(HandleBusinessKey(u, k, outcome), n)
<1>1. Okay(QuantityKey(u, k, outcome), n)
  BY QuantityKeyKeeps
<1>2. Okay(Sent(u, "KEY", outcome), n)
  BY SentKeeps DEF Okay
<1>. QED  BY <1>1, <1>2 DEF HandleBusinessKey

LEMMA ResyncStartsKeeps ==
  ASSUME NEW u, NEW n, Ready(u, n)
  PROVE  Okay(ResyncStarts(u), n)
<1>1. Ready([u EXCEPT !.resyncing = TRUE, !.fetched = TRUE], n)
  BY DEF Ready, Kept, Timed, Fields
<1>2. ResyncingScreen \in OtherScreens
  BY DEF OtherScreens
<1>. QED  BY <1>1, <1>2, DrawnOther DEF ResyncStarts

LEMMA ApplyKeeps ==
  ASSUME NEW u, NEW n \in Nat \ {0}, Ready(u, n), NEW accepted \in BOOLEAN, NEW s \in States
  PROVE  Okay(Apply(u, accepted, s), n)
<1>. DEFINE finished == accepted /\ u.submitted /\ u.snap = "QUANTITY_INPUT" /\ s # "QUANTITY_INPUT"
            entered  == s = "QUANTITY_INPUT" /\ u.snap # "QUANTITY_INPUT"
            v == IF entered THEN FreshFlow(u) ELSE u
            w == [v EXCEPT !.snap = s, !.holding = @ \/ finished]
<1>1. Ready(v, n)
  <2>1. 0 \in Figures /\ "GOOD" \in QtySteps
    BY ScreensAssumption DEF QtySteps
  <2>. QED  BY <2>1, EntryFields
<1>2. Ready(w, n)
  <2>. HIDE DEF v, finished
  <2>. QED  BY <1>1 DEF Ready, Kept, Timed, Fields
<1>3. Okay(Render(w, ~accepted), n)
  <2>. HIDE DEF w
  <2>. QED  BY <1>2, RenderKeeps
<1>4. Apply(u, accepted, s) = Render(w, ~accepted)
  BY DEF Apply
<1>. QED  BY <1>3, <1>4

LEMMA AnswerKeeps ==
  ASSUME NEW u, NEW n \in Nat \ {0}, Okay(u, n), NEW a \in EventAnswers
  PROVE  Okay(EventAnswered(u, a), n)
<1>. DEFINE v == [u EXCEPT !.pending = FALSE]
            w == [v EXCEPT !.buf = Blank]
<1>1. Ready(v, n)
  BY DEF Okay, Ready, Kept, Timed, Fields
<1>2. Ready(w, n)
  <2>. HIDE DEF v
  <2>. QED  BY <1>1 DEF Ready, Kept, Timed, Fields
<1>. HIDE DEF v, w
<1>3. /\ Okay(Render(v, TRUE), n) /\ Okay(ResyncStarts(v), n) /\ Okay(ResyncStarts(w), n)
      /\ Okay(Render(w, TRUE), n)
  BY <1>1, <1>2, RenderKeeps, ResyncStartsKeeps
<1>4. CASE a.kind \in {"accepted", "rejected"}
  <2>1. a.state \in States
    BY <1>4 DEF EventAnswers
  <2>2. Okay(Apply(w, a.kind = "accepted", a.state), n)
    BY <1>2, <2>1, ApplyKeeps
  <2>3. EventAnswered(u, a) = Apply(w, a.kind = "accepted", a.state)
    BY <1>4 DEF EventAnswered, v, w
  <2>. QED  BY <2>2, <2>3
<1>5. CASE a.kind \notin {"accepted", "rejected"}
  <2>1. a.kind \in {"failed", "malformed", "conflict", "stale", "unsupported"}
    BY <1>5 DEF EventAnswers
  <2>2. \/ EventAnswered(u, a) = Render(v, TRUE)
        \/ EventAnswered(u, a) = ResyncStarts(v)
        \/ EventAnswered(u, a) = ResyncStarts(w)
        \/ EventAnswered(u, a) = Render(w, TRUE)
    BY <2>1 DEF EventAnswered, v, w
  <2>. QED  BY <1>3, <2>2
<1>. QED  BY <1>4, <1>5

LEMMA ResyncedKeeps ==
  ASSUME NEW u, NEW n \in Nat \ {0}, Ready(u, n), NEW s \in States
  PROVE  Okay(Resynced(u, s), n)
<1>1. Ready([u EXCEPT !.resyncing = FALSE, !.buf = Blank, !.snap = s], n)
  BY DEF Ready, Kept, Timed, Fields
<1>. QED  BY <1>1, RefreshKeeps DEF Resynced

(* That the mismatch ends uncovers nothing: no draw was under it.            *)
LEMMA BootstrapKeeps ==
  ASSUME NEW u, NEW n \in Nat \ {0}, Okay(u, n), NEW s,
         NEW b \in {"state", "no_state", "rejected", "mismatch"}, b = "state" => s \in States
  PROVE  Okay(Bootstrapped(u, b, s), n)
<1>1. Ready(u, n) /\ ErrorScreen \in OtherScreens
  BY DEF Okay, OtherScreens
<1>2. CASE b = "rejected"
  BY <1>1, <1>2, DrawnOther DEF Bootstrapped
<1>3. CASE b = "mismatch"
  <2>1. Ready([u EXCEPT !.mismatch = TRUE], n)
    BY <1>1 DEF Ready, Kept, Timed, Fields
  <2>. QED  BY <1>3, <2>1, RefreshKeeps DEF Bootstrapped
<1>4. CASE b = "state"
  <2>1. Ready([u EXCEPT !.mismatch = FALSE, !.snap = s], n)
    BY <1>1, <1>4 DEF Ready, Kept, Timed, Fields
  <2>. QED  BY <1>4, <2>1, RefreshKeeps DEF Bootstrapped
<1>5. CASE b = "no_state"
  <2>. DEFINE v == [u EXCEPT !.mismatch = FALSE]
  <2>1. Ready(v, n)
    BY <1>1 DEF Ready, Kept, Timed, Fields
  <2>2. /\ v.safe = u.safe /\ v.mismatch = FALSE /\ v.identity = u.identity
        /\ v.resyncing = u.resyncing /\ v.snap = u.snap /\ v.step = u.step /\ v.buf = u.buf
        /\ v.defect = u.defect /\ v.rework = u.rework /\ v.bundle = u.bundle
        /\ v.holding = u.holding /\ v.display = u.display
    BY <1>1 DEF Ready, Kept, Fields
  <2>3. Bootstrapped(u, b, s) = v
    BY <1>5 DEF Bootstrapped
  <2>. HIDE DEF v
  <2>4. TakesOver(u) = {} => TakesOver(v) = {} /\ StateScreen(v) = StateScreen(u)
    <3>1. TakesOver(u) = {} => TakesOver(v) = {}
      BY <2>2 DEF TakesOver
    <3>2. StepFigures(v) = StepFigures(u)
      BY <2>2 DEF StepFigures
    <3>3. StateScreen(v) = StateScreen(u)
      BY <2>2, <3>2 DEF StateScreen, StepScreen, BusinessScreen, BundleScreen, BuiltInScreen, TypedShown
    <3>. QED  BY <3>1, <3>3
  <2>. QED  BY <2>1, <2>2, <2>3, <2>4 DEF Okay, Faithful
<1>. QED  BY <1>2, <1>3, <1>4, <1>5

(* The checks of a pass: an error that has had its time is not left by them. *)
LEMMA ChecksKeep ==
  ASSUME NEW u, Okay(u, ErrorPasses + 1), NEW v \in Checks(u)
  PROVE  Okay(v, ErrorPasses)
<1>. DEFINE n == ErrorPasses
<1>0. n \in Nat \ {0} /\ n + 1 \in Nat \ {0}
  BY ScreensAssumption
<1>1. Okay(CheckErrorView(u), n)
  <2>1. CASE u.errorUp /\ u.errorAge >= n
    <3>1. CheckErrorView(u) = Refresh(u)
      BY <2>1 DEF CheckErrorView
    <3>2. Okay(Refresh(u), n + 1) /\ ~Refresh(u).errorUp
      BY <1>0, RefreshKeeps, RefreshCalms DEF Okay
    <3>. QED  BY <3>1, <3>2 DEF Okay, Ready, Timed
  <2>2. CASE ~(u.errorUp /\ u.errorAge >= n)
    <3>1. CheckErrorView(u) = u
      BY <2>2 DEF CheckErrorView
    <3>2. u.errorAge \in Nat
      BY DEF Okay, Ready, Kept
    <3>3. u.errorUp => u.errorAge < n
      BY <1>0, <2>2, <3>2
    <3>. QED  BY <3>1, <3>3 DEF Okay, Ready, Timed
  <2>. QED  BY <2>1, <2>2
<1>2. ASSUME NEW x, Okay(x, n), NEW y \in CheckFinishHold(x)
      PROVE  Okay(y, n)
  <2>1. Ready([x EXCEPT !.holding = FALSE], n)
    BY <1>2 DEF Okay, Ready, Kept, Timed, Fields
  <2>. QED  BY <1>0, <1>2, <2>1, RefreshKeeps DEF CheckFinishHold
<1>3. ASSUME NEW x, Okay(x, n), NEW y \in CheckIdle(x)
      PROVE  Okay(y, n)
  <2>1. \A o \in Sends : Okay(Sent(x, "KEY", o), n)
    BY <1>0, <1>3, SentKeeps DEF Okay
  <2>2. Okay(Refresh(x), n)
    BY <1>0, <1>3, RefreshKeeps DEF Okay
  <2>3. y = x \/ y = Refresh(x) \/ \E o \in Sends : y = Sent(x, "KEY", o)
    BY <1>3 DEF CheckIdle
  <2>. QED  BY <1>3, <2>1, <2>2, <2>3
<1>4. ASSUME NEW x, Okay(x, n), NEW y \in CheckStatusBar(x)
      PROVE  Okay(y, n)
  BY <1>0, <1>4, RefreshKeeps DEF CheckStatusBar, Okay
<1>5. PICK w : v \in CheckStatusBar(w) /\ \E x \in CheckFinishHold(CheckErrorView(u)) : w \in CheckIdle(x)
  BY DEF Checks
<1>. QED  BY <1>1, <1>2, <1>3, <1>4, <1>5

-----------------------------------------------------------------------------
(* `Steady(ui)` is the invariant of the display.                             *)
Steady(u) == Okay(u, ErrorPasses)

LEMMA FreshReady ==
  ASSUME NEW safe, NEW identity, NEW bundle
  PROVE  Ready(Fresh(safe, identity, bundle), ErrorPasses)
<1>1. 0 \in Figures /\ 0 < ErrorPasses
  BY ScreensAssumption
<1>. QED  BY <1>1 DEF Fresh, Ready, Kept, Timed, Fields, QtySteps, Overlays

LEMMA SteadyInit ==
  ASSUME ScreensInit
  PROVE  Steady(ui)
<1>1. ErrorPasses \in Nat \ {0}
  BY ScreensAssumption
<1>. QED  BY <1>1, FreshReady, RefreshKeeps DEF ScreensInit, Steady

LEMMA PollSteady ==
  ASSUME Steady(ui), ScreensPoll
  PROVE  Steady(ui')
<1>. DEFINE u == PassTime(ui)
            n == ErrorPasses + 1
<1>0. n \in Nat \ {0}
  BY ScreensAssumption
<1>1. Okay(u, n)
  <2>1. CASE ui.errorUp
    <3>1. u = [ui EXCEPT !.errorAge = ui.errorAge + 1, !.errorFor = ui.errorFor + 1]
      BY <2>1 DEF PassTime
    <3>2. /\ ui.errorAge \in Nat /\ ui.errorFor = ui.errorAge /\ ui.errorAge < ErrorPasses
          /\ DOMAIN ui = Fields
      BY <2>1 DEF Steady, Okay, Ready, Kept, Timed
    <3>a. u.errorAge = ui.errorAge + 1 /\ u.errorFor = ui.errorFor + 1 /\ u.errorUp = ui.errorUp
      BY <3>1, <3>2 DEF Fields
    <3>b. Timed(u, n)
      BY <1>0, <2>1, <3>2, <3>a, ScreensAssumption DEF Timed
    <3>c. u.errorAge \in Nat /\ u.errorFor \in Nat
      BY <3>2, <3>a
    <3>d. Kept(u)
      <4>1. /\ DOMAIN u = Fields /\ u.snap = ui.snap /\ u.step = ui.step /\ u.buf = ui.buf
            /\ u.defect = ui.defect /\ u.rework = ui.rework /\ u.over = ui.over /\ u.star = ui.star
        BY <3>1, <3>2 DEF Fields
      <4>. QED  BY <3>c, <4>1 DEF Steady, Okay, Ready, Kept
    <3>3. Ready(u, n)
      BY <3>b, <3>d DEF Ready
    <3>4. /\ u.safe = ui.safe /\ u.mismatch = ui.mismatch /\ u.identity = ui.identity
          /\ u.resyncing = ui.resyncing /\ u.snap = ui.snap /\ u.step = ui.step /\ u.buf = ui.buf
          /\ u.defect = ui.defect /\ u.rework = ui.rework /\ u.bundle = ui.bundle
          /\ u.holding = ui.holding /\ u.display = ui.display
      BY <3>1, <3>2 DEF Fields
    <3>. HIDE DEF u
    <3>5. TakesOver(u) = TakesOver(ui) /\ StateScreen(u) = StateScreen(ui)
      BY <3>4, SameScreen
    <3>. QED  BY <3>3, <3>4, <3>5 DEF Steady, Okay, Faithful
  <2>2. CASE ~ui.errorUp
    <3>1. u = ui
      BY <2>2 DEF PassTime
    <3>. QED  BY <2>2, <3>1 DEF Steady, Okay, Ready, Timed
  <2>. QED  BY <2>1, <2>2
<1>. HIDE DEF u
<1>2. \A a \in EventAnswers : Okay(EventAnswered(u, a), n)
  BY <1>0, <1>1, AnswerKeeps
<1>3. \A s \in States : Okay(Resynced(u, s), n)
  BY <1>0, <1>1, ResyncedKeeps DEF Okay
<1>4. \/ ui' \in Checks(u)
      \/ \E a \in EventAnswers : ui' \in Checks(EventAnswered(u, a))
      \/ \E s \in States : ui' \in Checks(Resynced(u, s))
  BY DEF ScreensPoll, u
<1>. QED  BY <1>1, <1>2, <1>3, <1>4, ChecksKeep DEF Steady

(* What neither the screens nor the time of an error depend on.              *)
LEMMA AsideKeeps ==
  ASSUME NEW u, NEW n, Okay(u, n)
  PROVE  /\ \A over \in Overlays : Okay([u EXCEPT !.over = over], n)
         /\ \A star \in {"up", "down", "counting"} : Okay([u EXCEPT !.star = star], n)
         /\ Okay(Counted(u), n)
<1>. DEFINE Same(v) == /\ v.safe = u.safe /\ v.mismatch = u.mismatch /\ v.identity = u.identity
                       /\ v.resyncing = u.resyncing /\ v.snap = u.snap /\ v.step = u.step
                       /\ v.buf = u.buf /\ v.defect = u.defect /\ v.rework = u.rework
                       /\ v.bundle = u.bundle /\ v.holding = u.holding /\ v.display = u.display
<1>1. ASSUME NEW v, Same(v), Ready(v, n)
      PROVE  Okay(v, n)
  <2>1. TakesOver(v) = TakesOver(u) /\ StateScreen(v) = StateScreen(u)
    BY <1>1, SameScreen
  <2>. QED  BY <1>1, <2>1 DEF Okay, Faithful
<1>2. ASSUME NEW over \in Overlays
      PROVE  Okay([u EXCEPT !.over = over], n)
  <2>1. Ready([u EXCEPT !.over = over], n) /\ Same([u EXCEPT !.over = over])
    BY DEF Okay, Ready, Kept, Timed, Fields
  <2>. QED  BY <1>1, <2>1
<1>3. ASSUME NEW star \in {"up", "down", "counting"}
      PROVE  Okay([u EXCEPT !.star = star], n)
  <2>1. Ready([u EXCEPT !.star = star], n) /\ Same([u EXCEPT !.star = star])
    BY DEF Okay, Ready, Kept, Timed, Fields
  <2>. QED  BY <1>1, <2>1
<1>4. Okay(Counted(u), n)
  <2>1. Ready(Counted(u), n) /\ Same(Counted(u))
    BY DEF Okay, Ready, Kept, Timed, Fields, Counted
  <2>. QED  BY <1>1, <2>1
<1>. QED  BY <1>2, <1>3, <1>4

LEMMA OpensKeeps ==
  ASSUME NEW u, NEW n, Okay(u, n), NEW over \in Overlays, NEW s \in OtherScreens
  PROVE  Okay(Opens(u, over, s), n)
<1>. DEFINE v == [u EXCEPT !.star = "up", !.over = over]
<1>1. Ready(v, n)
  BY DEF Okay, Ready, Kept, Timed, Fields
<1>. HIDE DEF v
<1>2. Okay(Drawn(v, s), n)
  BY <1>1, DrawnOther
<1>. QED  BY <1>2 DEF Opens, v

LEMMA StepSteady ==
  ASSUME Steady(ui), [ScreensNext]_ui
  PROVE  Steady(ui')
<1>. DEFINE n == ErrorPasses
<1>0. n \in Nat \ {0} /\ Okay(ui, n) /\ Ready(ui, n)
  BY ScreensAssumption DEF Steady, Okay
<1>a. /\ \A over \in Overlays : Okay([ui EXCEPT !.over = over], n)
      /\ \A star \in {"up", "down", "counting"} : Okay([ui EXCEPT !.star = star], n)
      /\ Okay(Counted(ui), n)
  BY <1>0, AsideKeeps
<1>b. Overlays = {"none", "menu", "info", "portal"}
  BY DEF Overlays
<1>c. {HoldScreen, MenuScreen, InfoScreen, PortalScreen, WaitingScreen} \subseteq OtherScreens
  BY DEF OtherScreens
<1>1. CASE ScreensPoll
  BY <1>1, PollSteady
<1>2. CASE Scanned
  BY <1>0, <1>2, ScanKeeps DEF Scanned, Steady
<1>3. CASE BusinessKey
  BY <1>0, <1>3, BusinessKeyKeeps DEF BusinessKey, Steady
<1>4. CASE BootstrapTaken
  <2>1. \A s \in States : Okay(Bootstrapped(ui, "state", s), n)
    BY <1>0, BootstrapKeeps
  <2>2. Okay(Bootstrapped(ui, "no_state", NoState), n)
    BY <1>0, BootstrapKeeps
  <2>3. \A b \in {"rejected", "mismatch"} : Okay(Bootstrapped(Counted(ui), b, NoState), n)
    BY <1>0, <1>a, BootstrapKeeps
  <2>. QED  BY <1>4, <2>1, <2>2, <2>3 DEF BootstrapTaken, Steady
<1>5. CASE WifiChanges
  BY <1>0, <1>5, RefreshKeeps DEF WifiChanges, Steady
<1>6. CASE Suspended
  <2>1. Ready([Counted(ui) EXCEPT !.identity = "SUSPENDED"], n)
    <3>1. Ready(Counted(ui), n)
      BY <1>a DEF Okay
    <3>. QED  BY <3>1 DEF Ready, Kept, Timed, Fields
  <2>. QED  BY <1>0, <1>6, <2>1, RefreshKeeps DEF Suspended, Steady
<1>7. CASE BundleActivated
  <2>1. Ready([Counted(ui) EXCEPT !.bundle = 1], n)
    <3>1. Ready(Counted(ui), n)
      BY <1>a DEF Okay
    <3>. QED  BY <3>1 DEF Ready, Kept, Timed, Fields
  <2>. QED  BY <1>0, <1>7, <2>1, RefreshKeeps DEF BundleActivated, Steady
<1>8. CASE StarPressed
  <2>1. ui' = [Counted(ui) EXCEPT !.star = "down"]
    BY <1>8 DEF StarPressed
  <2>. QED  BY <1>a, <2>1, AsideKeeps DEF Steady
<1>9. CASE StarHeld
  <2>1. Okay([ui EXCEPT !.star = "counting"], n)
    BY <1>a
  <2>2. Okay(Drawn([ui EXCEPT !.star = "counting"], HoldScreen), n)
    BY <1>c, <2>1, DrawnOther DEF Okay
  <2>3. Okay(Opens(ui, "menu", MenuScreen), n) /\ Okay(Opens(ui, "portal", PortalScreen), n)
    BY <1>0, <1>b, <1>c, OpensKeeps
  <2>. QED  BY <1>9, <2>1, <2>2, <2>3 DEF StarHeld, Steady
<1>10. CASE StarLetGo
  <2>1. Okay(Opens(ui, "none", WaitingScreen), n) /\ Okay([ui EXCEPT !.star = "up"], n)
    BY <1>0, <1>a, <1>b, <1>c, OpensKeeps
  <2>. QED  BY <1>10, <2>1 DEF StarLetGo, Steady
<1>11. ASSUME NEW o \in 1..6, MenuChoice(o)
       PROVE  Steady(ui')
  <2>. DEFINE back == [ui EXCEPT !.over = "none"]
  <2>1. Okay(back, n) /\ Ready(back, n)
    BY <1>a, <1>b DEF Okay
  <2>. HIDE DEF back
  <2>2. Okay(Refresh(back), n)
    BY <1>0, <2>1, RefreshKeeps
  <2>3. Okay(ManualResync(back), n)
    BY <2>1, ResyncStartsKeeps DEF ManualResync
  <2>4. Okay(Opens(ui, "portal", PortalScreen), n) /\ Okay(Opens(ui, "info", InfoScreen), n)
    BY <1>0, <1>b, <1>c, OpensKeeps
  <2>5. Okay(Refresh(Fresh(ui.safe, ui.identity, ui.bundle)), n)
    BY <1>0, FreshReady, RefreshKeeps
  <2>6. \/ ui' = Refresh(back) \/ ui' = ManualResync(back)
        \/ ui' = Opens(ui, "portal", PortalScreen) \/ ui' = Opens(ui, "info", InfoScreen)
        \/ ui' = Refresh(Fresh(ui.safe, ui.identity, ui.bundle))
    BY <1>11 DEF MenuChoice, back
  <2>. QED  BY <2>2, <2>3, <2>4, <2>5, <2>6 DEF Steady
<1>12. CASE InfoKey
  BY <1>0, <1>b, <1>c, <1>12, OpensKeeps DEF InfoKey, Steady
<1>13. CASE PortalDraws
  BY <1>0, <1>c, <1>13, DrawnOther DEF PortalDraws, Steady
<1>14. CASE PortalLeaves
  <2>1. Ready([ui EXCEPT !.over = "none"], n)
    BY <1>a, <1>b DEF Okay
  <2>. QED  BY <1>0, <1>14, <2>1, RefreshKeeps DEF PortalLeaves, Steady
<1>15. CASE UNCHANGED ui
  BY <1>15
<1>. QED
  BY <1>1, <1>2, <1>3, <1>4, <1>5, <1>6, <1>7, <1>8, <1>9, <1>10, <1>11, <1>12, <1>13, <1>14, <1>15
  DEF ScreensNext

DisplayInv == Steady(ui)

LEMMA DisplayInvariance == ScreensSpec => []DisplayInv
<1>1. DisplayInv /\ [ScreensNext]_ui => DisplayInv'
  BY StepSteady DEF DisplayInv
<1>2. ScreensInit => DisplayInv
  BY SteadyInit DEF DisplayInv
<1>. QED  BY <1>1, <1>2, PTL DEF ScreensSpec

LEMMA DisplayInvHolds ==
  ASSUME DisplayInv
  PROVE  ScreensTypeOK /\ ShownIsHeld /\ ErrorGoesAway
<1>1. Kept(ui) /\ Timed(ui, ErrorPasses) /\ Faithful(ui) /\ ErrorPasses \in Nat \ {0}
  BY ScreensAssumption DEF DisplayInv, Steady, Okay, Ready
<1>2. ui.errorAge \in 0..ErrorPasses
  BY <1>1 DEF Kept, Timed
<1>3. ScreensTypeOK
  BY <1>1, <1>2 DEF Kept, ScreensTypeOK
<1>4. ShownIsHeld
  BY <1>1 DEF Faithful, ShownIsHeld, ShowsState
<1>5. ErrorGoesAway
  BY <1>1 DEF Timed, ErrorGoesAway
<1>. QED  BY <1>3, <1>4, <1>5

(* A state's screen is on the display only while it is what the kiosk holds, *)
(* with the figures it holds: for any states, figures and number of steps,   *)
(* whatever takes the display over in between.                               *)
THEOREM DisplayIsHeld == ScreensSpec => []ShownIsHeld
<1>1. DisplayInv => ShownIsHeld
  BY DisplayInvHolds
<1>. QED  BY <1>1, DisplayInvariance, PTL

(* An error is up for less than its time, counted from when it first came    *)
(* up, however many errors follow it, and for any number of passes it is     *)
(* given.                                                                    *)
THEOREM ErrorsEnd == ScreensSpec => []ErrorGoesAway
<1>1. DisplayInv => ErrorGoesAway
  BY DisplayInvHolds
<1>. QED  BY <1>1, DisplayInvariance, PTL

-----------------------------------------------------------------------------
(* The two parts together, as the run has them.                              *)

LEMMA FreshSteady ==
  ASSUME ui = Fresh(FALSE, "ACTIVE", 0)
  PROVE  DisplayInv
<1>1. Ready(ui, ErrorPasses)
  BY FreshReady
<1>2. ui.display = WaitingScreen
  BY DEF Fresh
<1>3. WaitingScreen \in OtherScreens
  BY DEF OtherScreens
<1>. QED  BY <1>1, <1>2, <1>3, OtherScreensFact DEF DisplayInv, Steady, Okay, Faithful

(* The types of both, of the entry's figures and steps and the network's     *)
(* requests as well as of the screens', in the specification that is run.    *)
THEOREM OperatorTypeCorrect == OperatorSpec => []OperatorTypeOK
<1>1. OperatorInit => EntryInv /\ DisplayInv
  BY EntryInvInit, SteadyInit, FreshSteady DEF OperatorInit, DisplayInv
<1>2. EntryInv /\ DisplayInv /\ [OperatorNext]_<<part, ui, vars>> => EntryInv' /\ DisplayInv'
  <2>. SUFFICES ASSUME EntryInv, DisplayInv, [OperatorNext]_<<part, ui, vars>>
                PROVE  EntryInv' /\ DisplayInv'
    OBVIOUS
  <2>1. [Next]_vars /\ [ScreensNext]_ui
    BY DEF OperatorNext
  <2>. QED  BY <2>1, StepEntryInv, StepSteady DEF DisplayInv
<1>3. EntryInv /\ DisplayInv => OperatorTypeOK
  BY DisplayInvHolds DEF EntryInv, EntryTypes, OperatorTypeOK
<1>. QED  BY <1>1, <1>2, <1>3, PTL DEF OperatorSpec
=============================================================================
