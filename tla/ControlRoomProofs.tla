------------------------- MODULE ControlRoomProofs -------------------------
(***************************************************************************)
(* What holds of the decision path of the Control Room and of its audit    *)
(* trail for every set of people, proposals and processes, and for every   *)
(* bound: however many people decide at once, whoever else writes the      *)
(* records, the ledger and the trail, and wherever any process dies.       *)
(***************************************************************************)
EXTENDS ControlRoom, DecisionLedgerProofs

-----------------------------------------------------------------------------
(***************************************************************************)
(* The room runs the ledger                                                *)
(***************************************************************************)

\* What a reviewer looks at is a version of a proposal, or nothing.
ScreensAreContents == screen \in [Person -> Content \cup {NoScreen}]

(* What the queue displays is a version the store holds.                   *)
LEMMA ScreensStayContents ==
  ASSUME TypeOK, ScreensAreContents, [RoomNext]_roomVars
  PROVE  ScreensAreContents'
<1>1. ASSUME NEW r \in Person, NEW p \in Proposal, Display(r, p)
      PROVE  ScreensAreContents'
  <2>1. <<p, store[p]>> \in Content
    BY <1>1 DEF Display, Content, Version, TypeOK
  <2> QED
    BY <1>1, <2>1 DEF Display, ScreensAreContents
<1>2. CASE screen' = screen
  BY <1>2 DEF ScreensAreContents
<1>3. \/ screen' = screen
      \/ \E r \in Person, p \in Proposal : Display(r, p)
  BY DEF RoomNext, roomVars, room, CommandLine, ServerSteps, Decide,
         RefuseDecision, RequestChanges, ServerRefused, ServerRecorded, ServerDies,
         Auditing, AuditOther, ReadHead, AppendTrail
<1> QED
  BY <1>1, <1>2, <1>3

(* Whatever the Control Room does to the records and to decisions.jsonl,   *)
(* recordDecision does: each of its steps is a step of the ledger or       *)
(* leaves it alone.                                                        *)
LEMMA RoomStepsAreLedgerSteps ==
  ASSUME ScreensAreContents, [RoomNext]_roomVars
  PROVE  [Next]_vars
<1>1. CASE Agents /\ UNCHANGED room
  BY <1>1 DEF Next
<1>2. ASSUME NEW w \in Writer, CommandLine(w) PROVE Next
  BY <1>2 DEF CommandLine, Next, Deciding
<1>3. CASE ServerSteps
  <2>1. ASSUME NEW r \in Person, NEW outcome \in Outcome, Decide(r, outcome)
        PROVE  Next
    <3>1. Server \in Writer /\ r \in Name /\ screen[r][1] \in Proposal
      BY <2>1, ServerAssumption
      DEF Name, Decide, Submits, ScreensAreContents, Content
    <3>2. CheckRecords(Server, screen[r][1], outcome, r)
      BY <2>1 DEF Decide
    <3> QED
      BY <3>1, <3>2 DEF Next, Deciding
  <2>2. CASE \/ \E r \in Person, p \in Proposal : Display(r, p)
             \/ \E r \in Person : RefuseDecision(r) \/ RequestChanges(r)
    BY <2>2 DEF Display, RefuseDecision, RequestChanges
  <2>3. CASE ReadLedger(Server) \/ RefuseLedger(Server) \/ AppendEntry(Server)
               \/ Die(Server)
    BY <2>3, ServerAssumption DEF Next, Deciding
  <2>4. CASE ServerDies
    BY <2>3, <2>4 DEF ServerDies
  <2> QED
    BY <1>3, <2>1, <2>2, <2>3, <2>4 DEF ServerSteps, ServerRefused, ServerRecorded
<1>4. CASE Auditing
  BY <1>4 DEF Auditing, AuditOther, ReadHead, AppendTrail
<1> QED
  BY <1>1, <1>2, <1>3, <1>4 DEF RoomNext, roomVars

(* The Control Room is one of the ledger's processes (decide.mjs:433 calls *)
(* recordDecision): every behaviour of the room is one of the ledger, so   *)
(* all that is proved of the ledger holds with the server, its reviewers   *)
(* and its trail beside it.                                                *)
THEOREM RoomRunsTheLedger == RoomSpec => Spec
<1>1. RoomInit => Init /\ TypeOK /\ ScreensAreContents
  BY StartIsTyped DEF RoomInit, ScreensAreContents
<1>2. TypeOK /\ ScreensAreContents /\ [RoomNext]_roomVars
        => [Next]_vars /\ TypeOK' /\ ScreensAreContents'
  BY RoomStepsAreLedgerSteps, ScreensStayContents, StepKeepsTypes
<1> QED
  BY <1>1, <1>2, PTL DEF RoomSpec, Spec

-----------------------------------------------------------------------------
(***************************************************************************)
(* What becomes of the server's lines and of the acts it accounts for      *)
(***************************************************************************)

\* A last line without its newline, which the next append makes unreadable,
\* is not one the server was told was written.
ServersLinesHaveAnEnd ==
  /\ viaServer \subseteq DOMAIN ledger
  /\ tail = "entry" => Len(ledger) \notin viaServer

(* No step of any process takes a line of the server's out of the ledger,  *)
(* changes it or moves it, and a ledger that cannot be read stays so.      *)
LEMMA ServersLinesStay ==
  ASSUME TypeOK, ServersLinesHaveAnEnd, [Next]_vars
  PROVE  /\ \A i \in viaServer : i \in DOMAIN ledger' /\ ledger'[i] = ledger[i]
         /\ tail' = "entry" => Len(ledger') \notin viaServer
         /\ (DOMAIN ledger') \ DOMAIN ledger \subseteq {Len(ledger) + 1}
         /\ ~garbled' /\ tail' # "part" => ~garbled /\ tail # "part"
<1>1. CASE UNCHANGED <<ledger, tail, garbled>>
  BY <1>1 DEF ServersLinesHaveAnEnd
<1>2. ASSUME NEW e \in Entry, NEW upto \in Written, Write(e, upto)
      PROVE  /\ \A i \in viaServer : i \in DOMAIN ledger' /\ ledger'[i] = ledger[i]
             /\ tail' = "entry" => Len(ledger') \notin viaServer
             /\ (DOMAIN ledger') \ DOMAIN ledger \subseteq {Len(ledger) + 1}
             /\ ~garbled' /\ tail' # "part" => ~garbled /\ tail # "part"
  <2>0. ledger \in Seq(Entry) /\ Len(ledger) \in Nat /\ DOMAIN ledger = 1 .. Len(ledger)
    BY DEF TypeOK
  <2>1. CASE tail = "line"
    <3>1. CASE upto = "part"
      BY <1>2, <2>1, <3>1 DEF Write, ServersLinesHaveAnEnd
    <3>2. CASE upto # "part"
      <4>1. ledger' = Append(ledger, e) /\ garbled' = garbled /\ tail' = upto
        BY <1>2, <2>1, <3>2 DEF Write
      <4>2. /\ Len(ledger') = Len(ledger) + 1
            /\ DOMAIN ledger' = 1 .. (Len(ledger) + 1)
            /\ \A i \in 1 .. Len(ledger) : ledger'[i] = ledger[i]
        BY <2>0, <4>1
      <4> QED
        BY <2>0, <2>1, <4>1, <4>2 DEF ServersLinesHaveAnEnd
    <3> QED
      BY <3>1, <3>2
  <2>2. CASE tail = "entry"
    <3>1. /\ ledger' = SubSeq(ledger, 1, Len(ledger) - 1)
          /\ tail' # "entry"
          /\ tail' = "part" \/ garbled'
      BY <1>2, <2>2 DEF Write
    <3>2. Len(ledger) # 0
      BY <2>2 DEF TypeOK
    <3>3. /\ DOMAIN ledger' = 1 .. (Len(ledger) - 1)
          /\ \A i \in 1 .. (Len(ledger) - 1) : ledger'[i] = ledger[i]
      BY <2>0, <3>1, <3>2
    <3>4. \A i \in viaServer : i \in 1 .. (Len(ledger) - 1)
      BY <2>0, <2>2 DEF ServersLinesHaveAnEnd
    <3>5. (DOMAIN ledger') \ DOMAIN ledger = {}
      BY <2>0, <3>3
    <3> QED
      BY <3>1, <3>3, <3>4, <3>5
  <2>3. CASE tail = "part"
    BY <1>2, <2>3 DEF Write, ServersLinesHaveAnEnd
  <2> QED
    BY <2>1, <2>2, <2>3 DEF TypeOK, Written
<1>3. ASSUME NEW w \in Writer, AppendEntry(w) \/ Die(w),
             ~ UNCHANGED <<ledger, tail, garbled>>
      PROVE  draft[w] \in Entry /\ \E upto \in Written : Write(draft[w], upto)
  BY <1>3 DEF AppendEntry, Die, Written, TypeOK
<1> QED
  BY <1>1, <1>2, <1>3
  DEF Next, Agents, Deciding, Propose, RaiseRequest, LoseRecords, CheckRecords,
      ReadLedger, RefuseLedger, vars

\* What a process that owes an entry owes: an act, and the head once it is read.
Owed == Act \X (Nat \cup {Nothing})

\* Reading the head changes nothing of the act.
LEMMA HeadIsFilledIn ==
  ASSUME NEW o, NEW told, NEW at, NEW n, o = <<told, at>>
  PROVE  [o EXCEPT ![2] = n] = <<told, n>>
<1>1. DOMAIN o = 1 .. 2 /\ o[1] = told /\ o[2] = at
  OBVIOUS
<1>2. [o EXCEPT ![2] = n] = [i \in 1 .. 2 |-> IF i = 2 THEN n ELSE o[i]]
  BY <1>1
<1>3. [i \in 1 .. 2 |-> IF i = 2 THEN n ELSE o[i]] = <<told, n>>
  BY <1>1
<1> QED
  BY <1>2, <1>3

LEMMA HeadIsRead ==
  ASSUME RoomTypeOK, NEW a \in Auditor, ReadHead(a)
  PROVE  \E told \in Act : /\ owed[a] = <<told, Nothing>>
                           /\ owed' = [owed EXCEPT ![a] = <<told, Len(trail)>>]
<1>1. owed[a] \in Owed /\ owed[a][2] = Nothing
  BY DEF ReadHead, RoomTypeOK, Owed
<1>2. PICK told \in Act : owed[a] = <<told, Nothing>>
  BY <1>1 DEF Owed
<1>3. owed' = [owed EXCEPT ![a] = [owed[a] EXCEPT ![2] = Len(trail)]]
  BY DEF ReadHead
<1>4. [owed[a] EXCEPT ![2] = Len(trail)] = <<told, Len(trail)>>
  BY <1>2, HeadIsFilledIn
<1> QED
  BY <1>2, <1>3, <1>4

(* What each of the room's records changes by: the server's lines by its   *)
(* recording one, what is forgotten by its dying, the trail by an append;  *)
(* and nobody unsees anything.                                             *)
LEMMA OneActionEach ==
  ASSUME [RoomNext]_roomVars
  PROVE  /\ viaServer' # viaServer => ServerRecorded
         /\ forgotten' # forgotten => ServerDies
         /\ trail' # trail => \E a \in Auditor : AppendTrail(a)
         /\ shown \subseteq shown'
BY DEF RoomNext, roomVars, room, CommandLine, ServerSteps, Display, Decide,
       RefuseDecision, RequestChanges, ServerRefused, ServerRecorded, ServerDies,
       Auditing, AuditOther, ReadHead, AppendTrail

(* The one line the server adds to the ledger is the one it built, and it  *)
(* adds none to a file that ends without a newline.                        *)
LEMMA ServerWritesItsDraft ==
  ASSUME TypeOK, ServerRecorded
  PROVE  /\ pc[Server] # "idle" /\ pc'[Server] = "idle"
         /\ tail = "line" => /\ Len(ledger) + 1 \in DOMAIN ledger'
                             /\ viaServer' = viaServer \cup {Len(ledger) + 1}
                             /\ ledger'[Len(ledger) + 1] = draft[Server]
         /\ tail # "line" => garbled' /\ viaServer' = viaServer
<1>1. /\ pc[Server] # "idle" /\ pc'[Server] = "idle" /\ Write(draft[Server], "line")
      /\ viaServer' = viaServer \cup ((DOMAIN ledger') \ DOMAIN ledger)
  BY ServerAssumption DEF ServerRecorded, AppendEntry, Abandon, TypeOK
<1>2. ledger \in Seq(Entry) /\ draft[Server] \in Entry
  BY <1>1, ServerAssumption DEF TypeOK
<1>3. CASE tail = "line"
  <2>1. ledger' = Append(ledger, draft[Server])
    BY <1>1, <1>3 DEF Write
  <2>2. /\ DOMAIN ledger = 1 .. Len(ledger) /\ Len(ledger) \in Nat
        /\ DOMAIN ledger' = 1 .. (Len(ledger) + 1)
        /\ ledger'[Len(ledger) + 1] = draft[Server]
    BY <1>2, <2>1
  <2>3. (DOMAIN ledger') \ DOMAIN ledger = {Len(ledger) + 1}
    BY <2>2
  <2> QED
    BY <1>1, <1>3, <2>2, <2>3
<1>4. CASE tail # "line"
  <2>1. /\ garbled'
        /\ \/ ledger' = ledger
           \/ tail = "entry" /\ ledger' = SubSeq(ledger, 1, Len(ledger) - 1)
    BY <1>1, <1>4 DEF Write
  <2>2. CASE tail = "entry" /\ ledger' = SubSeq(ledger, 1, Len(ledger) - 1)
    <3>1. Len(ledger) \in Nat /\ Len(ledger) # 0
      BY <2>2 DEF TypeOK
    <3>2. DOMAIN ledger' = 1 .. (Len(ledger) - 1) /\ DOMAIN ledger = 1 .. Len(ledger)
      BY <1>2, <2>2, <3>1
    <3> QED
      BY <1>1, <1>4, <2>1, <3>1, <3>2
  <2> QED
    BY <1>1, <1>4, <2>1, <2>2
<1> QED
  BY <1>1, <1>3, <1>4

(* What the trail says or is about to say after a step is what it said     *)
(* before, an act that names no content that counts, a request for changes *)
(* to what is on a reviewer's screen, or the decision the server recorded. *)
LEMMA WhatIsTold ==
  ASSUME RoomTypeOK, [RoomNext]_roomVars, NEW act \in Told'
  PROVE  \/ act \in Told
         \/ act.action \in {"other", "refused"}
         \/ \E r \in Person :
              /\ RequestChanges(r)
              /\ act = [action |-> "changes_requested", actor |-> r, content |-> screen[r]]
         \/ ServerRecorded /\ act = DecisionAct(IF draft[Server].outcome = "granted"
                                                  THEN "approved" ELSE "rejected")
<1>1. CASE UNCHANGED <<trail, owed>>
  BY <1>1 DEF Told
<1>2. ASSUME NEW a \in Auditor, NEW new, Owe(a, new), trail' = trail
      PROVE  act \in Told \/ act = new
  <2>1. \A b \in Auditor : owed'[b] = IF b = a THEN <<new, Nothing>> ELSE owed[b]
    BY <1>2 DEF Owe, RoomTypeOK
  <2> QED
    BY <1>2, <2>1 DEF Told
<1>3. ASSUME NEW a \in Auditor, ReadHead(a)
      PROVE  act \in Told
  <2>1. PICK told \in Act :
          /\ owed[a] = <<told, Nothing>>
          /\ owed' = [owed EXCEPT ![a] = <<told, Len(trail)>>]
    BY <1>3, HeadIsRead
  <2>2. \A b \in Auditor : owed'[b] = IF b = a THEN <<told, Len(trail)>> ELSE owed[b]
    BY <2>1 DEF RoomTypeOK
  <2> QED
    BY <1>3, <2>1, <2>2 DEF Told, ReadHead
<1>4. ASSUME NEW a \in Auditor, AppendTrail(a)
      PROVE  act \in Told
  <2>1. \A b \in Auditor : owed'[b] = IF b = a THEN Nothing ELSE owed[b]
    BY <1>4 DEF AppendTrail, RoomTypeOK
  <2> DEFINE new == [act |-> owed[a][1], prev |-> owed[a][2], writer |-> a]
  <2>2. trail \in Seq(AuditEntry) /\ trail' = Append(trail, new)
    BY <1>4 DEF AppendTrail, RoomTypeOK
  <2>3. new.act = owed[a][1]
    OBVIOUS
  <2> HIDE DEF new
  <2>4. \A i \in DOMAIN trail' : \/ i \in DOMAIN trail /\ trail'[i] = trail[i]
                                 \/ trail'[i] = new
    BY <2>2
  <2> QED
    BY <1>4, <2>1, <2>3, <2>4 DEF Told, AppendTrail
<1>5. CASE ServerDies
  <2>1. \A b \in Auditor : owed'[b] = IF b = Server THEN Nothing ELSE owed[b]
    BY <1>5 DEF ServerDies, RoomTypeOK
  <2> QED
    BY <1>5, <2>1 DEF Told, ServerDies
<1>6. ASSUME NEW a \in Auditor, AuditOther(a)
      PROVE  act \in Told \/ act.action = "other"
  BY <1>2, <1>6 DEF AuditOther
<1>7. ASSUME NEW r \in Person, RefuseDecision(r)
      PROVE  act \in Told \/ act.action = "refused"
  BY <1>2, <1>7, ServerAssumption DEF RefuseDecision
<1>8. ASSUME NEW r \in Person, RequestChanges(r)
      PROVE  \/ act \in Told
             \/ act = [action |-> "changes_requested", actor |-> r, content |-> screen[r]]
  BY <1>2, <1>8, ServerAssumption DEF RequestChanges
<1>9. CASE ServerRefused
  BY <1>2, <1>9, ServerAssumption DEF ServerRefused, DecisionAct
<1>10. CASE ServerRecorded
  BY <1>2, <1>10, ServerAssumption DEF ServerRecorded
<1> QED
  BY <1>1, <1>3, <1>4, <1>5, <1>6, <1>7, <1>8, <1>9, <1>10
  DEF RoomNext, roomVars, room, CommandLine, ServerSteps, Display, Decide, Auditing

-----------------------------------------------------------------------------
(***************************************************************************)
(* What a reviewer is shown and what is decided in their name              *)
(***************************************************************************)

\* While recordDecision runs the server owes the trail nothing yet, and what
\* it decides is what the reviewer was shown.
BusyOnWhatWasShown ==
  pc[Server] # "idle" =>
    /\ owed[Server] = Nothing
    /\ <<draft[Server].by, draft[Server].proposal, draft[Server].version>> \in shown

ScreensWereShown ==
  \A r \in Person : screen[r] # NoScreen => <<r, screen[r][1], screen[r][2]>> \in shown

RoomInv ==
  /\ RoomTypeOK
  /\ ServersLinesHaveAnEnd
  /\ BusyOnWhatWasShown
  /\ ScreensWereShown

(* The other processes leave the server's draft, and all that the room     *)
(* keeps, alone.                                                           *)
LEMMA OthersLeaveTheServer ==
  ASSUME TypeOK, \/ Agents /\ UNCHANGED room
                 \/ \E w \in Writer : CommandLine(w)
  PROVE  UNCHANGED room /\ pc'[Server] = pc[Server] /\ draft'[Server] = draft[Server]
<1>1. CASE Agents /\ UNCHANGED room
  BY <1>1 DEF Agents, Propose, RaiseRequest, LoseRecords
<1>2. ASSUME NEW w \in Writer, CommandLine(w)
      PROVE  UNCHANGED room /\ pc'[Server] = pc[Server] /\ draft'[Server] = draft[Server]
  <2>1. w # Server /\ UNCHANGED room
    BY <1>2 DEF CommandLine
  <2> QED
    BY <1>2, <2>1, ServerAssumption
    DEF CommandLine, CheckRecords, ReadLedger, RefuseLedger, AppendEntry, Die,
        Abandon, TypeOK
<1> QED
  BY <1>1, <1>2

(* What the server audits of its draft is an act: a reviewer did it.       *)
LEMMA DecisionActIsAnAct ==
  ASSUME RoomInv, pc[Server] # "idle", NEW action \in {"approved", "rejected", "refused"}
  PROVE  DecisionAct(action) \in Act
<1>1. <<draft[Server].by, draft[Server].proposal, draft[Server].version>>
        \in Person \X Proposal \X Version
  BY DEF RoomInv, RoomTypeOK, BusyOnWhatWasShown
<1>2. /\ draft[Server].by \in Person
      /\ <<draft[Server].proposal, draft[Server].version>> \in Content
  BY <1>1 DEF Content
<1> QED
  BY <1>2 DEF DecisionAct, Act, Verdict

\* Owing an act the trail may hold is well typed.
LEMMA OwingIsTyped ==
  ASSUME RoomTypeOK, NEW a \in Auditor, NEW act \in Act, Owe(a, act)
  PROVE  owed' \in [Auditor -> (Act \X (Nat \cup {Nothing})) \cup {Nothing}]
BY DEF Owe, RoomTypeOK

(* The server has at most one decision in hand, on what its reviewer was   *)
(* shown, and no step of the room changes that.                            *)
LEMMA RoomStepKeepsInv ==
  ASSUME TypeOK, TypeOK', RoomInv, [RoomNext]_roomVars
  PROVE  RoomInv'
<1> USE ServerAssumption
<1>0. /\ \A i \in viaServer : i \in DOMAIN ledger'
      /\ tail' = "entry" => Len(ledger') \notin viaServer
  BY RoomStepsAreLedgerSteps, ServersLinesStay
  DEF RoomInv, RoomTypeOK, ScreensAreContents
<1>1. ASSUME UNCHANGED room, pc'[Server] = pc[Server], draft'[Server] = draft[Server]
      PROVE  RoomInv'
  BY <1>0, <1>1
  DEF room, RoomInv, RoomTypeOK, ServersLinesHaveAnEnd, BusyOnWhatWasShown, ScreensWereShown
<1>2. ASSUME NEW r \in Person, NEW p \in Proposal, Display(r, p)
      PROVE  RoomInv'
  <2>1. <<p, store[p]>> \in Content /\ store[p] \in Version
    BY <1>2 DEF Display, Content, Version, TypeOK
  <2>2. /\ screen' = [screen EXCEPT ![r] = <<p, store[p]>>]
        /\ shown' = shown \cup {<<r, p, store[p]>>}
        /\ UNCHANGED <<vars, trail, owed, viaServer, forgotten>>
    BY <1>2 DEF Display
  <2>3. RoomTypeOK'
    BY <2>1, <2>2 DEF RoomInv, RoomTypeOK, vars
  <2>4. ScreensWereShown'
    <3> SUFFICES ASSUME NEW q \in Person, screen'[q] # NoScreen
                 PROVE  <<q, screen'[q][1], screen'[q][2]>> \in shown'
      BY DEF ScreensWereShown
    <3>1. screen'[q] = IF q = r THEN <<p, store[p]>> ELSE screen[q]
      BY <2>2 DEF RoomInv, RoomTypeOK
    <3> QED
      BY <2>2, <3>1 DEF RoomInv, ScreensWereShown
  <2> QED
    BY <2>2, <2>3, <2>4 DEF RoomInv, ServersLinesHaveAnEnd, BusyOnWhatWasShown, vars
<1>3. ASSUME NEW r \in Person, NEW outcome \in Outcome, Decide(r, outcome)
      PROVE  RoomInv'
  <2>1. /\ owed[Server] = Nothing /\ screen[r] # NoScreen
        /\ store[screen[r][1]] = screen[r][2]
        /\ UNCHANGED <<ledger, tail>> /\ UNCHANGED room
        /\ draft' = [draft EXCEPT ![Server] =
             [proposal |-> screen[r][1], version |-> store[screen[r][1]],
              outcome |-> outcome, by |-> r, after |-> 0]]
    BY <1>3 DEF Decide, Submits, Reviewable, CheckRecords
  <2>2. /\ draft'[Server].by = r
        /\ draft'[Server].proposal = screen[r][1]
        /\ draft'[Server].version = screen[r][2]
    BY <2>1 DEF TypeOK
  <2> QED
    BY <2>1, <2>2
    DEF room, RoomInv, RoomTypeOK, ServersLinesHaveAnEnd, BusyOnWhatWasShown, ScreensWereShown
<1>4. ASSUME NEW act \in Act, Owe(Server, act), pc'[Server] = "idle",
             UNCHANGED <<ledger, tail, screen, shown, trail, viaServer, forgotten>>
      PROVE  RoomInv'
  BY <1>4, OwingIsTyped
  DEF RoomInv, RoomTypeOK, ServersLinesHaveAnEnd, BusyOnWhatWasShown, ScreensWereShown
<1>5. ASSUME NEW r \in Person, RefuseDecision(r) \/ RequestChanges(r)
      PROVE  RoomInv'
  <2>1. screen[r] \in Content /\ pc[Server] = "idle"
    BY <1>5 DEF RefuseDecision, RequestChanges, Submits, RoomInv, RoomTypeOK
  <2>2. ASSUME NEW action \in {"refused", "changes_requested"}
        PROVE  [action |-> action, actor |-> r, content |-> screen[r]] \in Act
    BY <2>1 DEF Act
  <2> QED
    BY <1>4, <1>5, <2>1, <2>2 DEF RefuseDecision, RequestChanges, vars
<1>6. CASE ServerRefused
  <2>1. pc[Server] # "idle" /\ pc'[Server] = "idle"
    BY <1>6 DEF ServerRefused, RefuseLedger, Abandon, TypeOK
  <2>2. DecisionAct("refused") \in Act
    BY <2>1, DecisionActIsAnAct
  <2> QED
    BY <1>4, <1>6, <2>1, <2>2 DEF ServerRefused, RefuseLedger
<1>7. CASE ServerRecorded
  <2>1. pc[Server] # "idle" /\ pc'[Server] = "idle" /\ tail' = "line"
    BY <1>7 DEF ServerRecorded, AppendEntry, Abandon, Write, TypeOK
  <2>2. PICK act \in Act : Owe(Server, act)
    BY <1>7, <2>1, DecisionActIsAnAct DEF ServerRecorded
  <2>3. /\ viaServer' = viaServer \cup ((DOMAIN ledger') \ DOMAIN ledger)
        /\ UNCHANGED <<screen, shown, trail, forgotten>>
    BY <1>7 DEF ServerRecorded
  <2> QED
    BY <1>0, <2>1, <2>2, <2>3, OwingIsTyped
    DEF RoomInv, RoomTypeOK, ServersLinesHaveAnEnd, BusyOnWhatWasShown, ScreensWereShown
<1>8. CASE ServerDies
  <2>1. /\ owed' = [owed EXCEPT ![Server] = Nothing]
        /\ forgotten' \subseteq forgotten \cup viaServer
        /\ UNCHANGED <<screen, shown, trail, viaServer>>
        /\ pc'[Server] = "idle"
    BY <1>8 DEF ServerDies, Die, Abandon, vars, TypeOK
  <2> QED
    BY <1>0, <2>1
    DEF RoomInv, RoomTypeOK, ServersLinesHaveAnEnd, BusyOnWhatWasShown, ScreensWereShown
<1>9. ASSUME NEW a \in Auditor, AuditOther(a)
      PROVE  RoomInv'
  <2>1. [action |-> "other"] \in Act
    BY DEF Act
  <2>2. pc[Server] # "idle" => owed'[Server] = owed[Server]
    BY <1>9 DEF AuditOther, Owe, RoomInv, RoomTypeOK
  <2>3. RoomTypeOK'
    BY <1>9, <2>1, OwingIsTyped DEF AuditOther, RoomInv, RoomTypeOK, vars
  <2> QED
    BY <1>9, <2>2, <2>3
    DEF AuditOther, vars, RoomInv, ServersLinesHaveAnEnd, BusyOnWhatWasShown, ScreensWereShown
<1>10. ASSUME NEW a \in Auditor, ReadHead(a)
       PROVE  RoomInv'
  <2>1. PICK told \in Act : owed' = [owed EXCEPT ![a] = <<told, Len(trail)>>]
    BY <1>10, HeadIsRead DEF RoomInv
  <2>2. Len(trail) \in Nat
    BY DEF RoomInv, RoomTypeOK
  <2>3. pc[Server] # "idle" => owed'[Server] = owed[Server]
    BY <1>10, <2>1 DEF ReadHead, RoomInv, RoomTypeOK, BusyOnWhatWasShown
  <2>4. RoomTypeOK'
    BY <1>10, <2>1, <2>2 DEF ReadHead, RoomInv, RoomTypeOK, vars
  <2> QED
    BY <1>10, <2>3, <2>4
    DEF ReadHead, vars, RoomInv, ServersLinesHaveAnEnd, BusyOnWhatWasShown, ScreensWereShown
<1>11. ASSUME NEW a \in Auditor, AppendTrail(a)
       PROVE  RoomInv'
  <2>1. owed[a][1] \in Act /\ owed[a][2] \in Nat
    BY <1>11 DEF AppendTrail, RoomInv, RoomTypeOK
  <2>2. [act |-> owed[a][1], prev |-> owed[a][2], writer |-> a] \in AuditEntry
    BY <2>1 DEF AuditEntry
  <2>3. trail' \in Seq(AuditEntry)
    BY <1>11, <2>2 DEF AppendTrail, RoomInv, RoomTypeOK
  <2>4. RoomTypeOK' /\ (pc[Server] # "idle" => owed'[Server] = owed[Server])
    BY <1>11, <2>3 DEF AppendTrail, RoomInv, RoomTypeOK, vars, BusyOnWhatWasShown
  <2> QED
    BY <1>11, <2>4
    DEF AppendTrail, vars, RoomInv, ServersLinesHaveAnEnd, BusyOnWhatWasShown, ScreensWereShown
<1>12. CASE ReadLedger(Server) /\ UNCHANGED room
  <2>1. /\ pc[Server] # "idle"
        /\ draft' = [draft EXCEPT ![Server] = [draft[Server] EXCEPT !.after = Len(ledger)]]
    BY <1>12 DEF ReadLedger
  <2>2. /\ draft'[Server].by = draft[Server].by
        /\ draft'[Server].proposal = draft[Server].proposal
        /\ draft'[Server].version = draft[Server].version
    BY <2>1 DEF TypeOK, Entry
  <2> QED
    BY <1>0, <1>12, <2>1, <2>2
    DEF room, RoomInv, RoomTypeOK, ServersLinesHaveAnEnd, BusyOnWhatWasShown, ScreensWereShown
<1>13. CASE \/ Agents /\ UNCHANGED room
            \/ \E w \in Writer : CommandLine(w)
            \/ UNCHANGED roomVars
  <2>1. CASE UNCHANGED roomVars
    BY <1>1, <2>1 DEF roomVars, vars
  <2> QED
    BY <1>1, <1>13, <2>1, OthersLeaveTheServer
<1> QED
  BY <1>2, <1>3, <1>5, <1>6, <1>7, <1>8, <1>9, <1>10, <1>11, <1>12, <1>13
  DEF RoomNext, ServerSteps, Auditing

(* Under every interleaving the invariant of the room, and the types of    *)
(* the ledger below it, hold.                                              *)
LEMMA RoomInvHolds == RoomSpec => [](TypeOK /\ RoomInv)
<1>1. RoomInit => TypeOK /\ RoomInv
  <2> SUFFICES ASSUME RoomInit PROVE TypeOK /\ RoomInv
    OBVIOUS
  <2>1. trail \in Seq(AuditEntry) /\ viaServer = {} /\ forgotten = {} /\ shown = {}
    BY DEF RoomInit
  <2> QED
    BY <2>1, StartIsTyped, ServerAssumption
    DEF RoomInit, Init, RoomInv, RoomTypeOK, ServersLinesHaveAnEnd, BusyOnWhatWasShown,
        ScreensWereShown
<1>2. TypeOK /\ RoomInv /\ [RoomNext]_roomVars => TypeOK' /\ RoomInv'
  <2> SUFFICES ASSUME TypeOK, RoomInv, [RoomNext]_roomVars PROVE TypeOK' /\ RoomInv'
    OBVIOUS
  <2>1. TypeOK'
    BY RoomStepsAreLedgerSteps, StepKeepsTypes DEF RoomInv, RoomTypeOK, ScreensAreContents
  <2> QED
    BY <2>1, RoomStepKeepsInv
<1> QED
  BY <1>1, <1>2, PTL DEF RoomSpec

(* Every state of the room is well typed: in particular the lines the      *)
(* server wrote, and those whose entry died with it, are lines the ledger  *)
(* still has, whatever a crash beside the server does to the file.         *)
THEOREM RoomIsTyped == RoomSpec => []RoomTypeOK
BY RoomInvHolds, PTL DEF RoomInv

(* A line the server wrote is on what its reviewer was shown, and so is    *)
(* every act the trail tells of.                                           *)
LEMMA DecidedWasShownStep ==
  ASSUME TypeOK, RoomInv, DecidedWasShown, [RoomNext]_roomVars
  PROVE  DecidedWasShown'
<1> USE ServerAssumption
<1>0. /\ \A i \in viaServer : i \in DOMAIN ledger' /\ ledger'[i] = ledger[i]
      /\ (DOMAIN ledger') \ DOMAIN ledger \subseteq {Len(ledger) + 1}
  BY RoomStepsAreLedgerSteps, ServersLinesStay
  DEF RoomInv, RoomTypeOK, ScreensAreContents
<1>1. shown \subseteq shown'
  BY OneActionEach
<1>2. ASSUME NEW act \in Told', act.action \in Verdict \cup {"changes_requested"}
      PROVE  <<act.actor, act.content[1], act.content[2]>> \in shown'
  <2>1. CASE act \in Told
    BY <1>1, <1>2, <2>1 DEF DecidedWasShown
  <2>2. ASSUME NEW r \in Person, RequestChanges(r),
               act = [action |-> "changes_requested", actor |-> r, content |-> screen[r]]
        PROVE  <<act.actor, act.content[1], act.content[2]>> \in shown'
    <3>1. screen[r] # NoScreen
      BY <2>2 DEF RequestChanges, Submits
    <3> QED
      BY <1>1, <2>2, <3>1 DEF RoomInv, ScreensWereShown
  <2>3. CASE ServerRecorded /\ \E action \in Verdict : act = DecisionAct(action)
    <3>1. pc[Server] # "idle"
      BY <2>3 DEF ServerRecorded, AppendEntry
    <3>2. /\ act.actor = draft[Server].by
          /\ act.content = <<draft[Server].proposal, draft[Server].version>>
      BY <2>3 DEF DecisionAct
    <3> QED
      BY <1>1, <3>1, <3>2 DEF RoomInv, BusyOnWhatWasShown
  <2>4. act.action \notin {"other", "refused"}
    BY <1>2 DEF Verdict
  <2> QED
    BY <2>1, <2>2, <2>3, <2>4, WhatIsTold DEF RoomInv, Verdict
<1>3. ASSUME NEW i \in viaServer'
      PROVE  <<ledger'[i].by, ledger'[i].proposal, ledger'[i].version>> \in shown'
  <2>1. CASE i \in viaServer
    BY <1>0, <1>1, <2>1 DEF DecidedWasShown
  <2>2. CASE i \notin viaServer
    <3>1. ServerRecorded /\ i \in (DOMAIN ledger') \ DOMAIN ledger
      BY <1>3, <2>2, OneActionEach DEF ServerRecorded
    <3>2. i = Len(ledger) + 1 /\ ledger'[i] = draft[Server] /\ pc[Server] # "idle"
      BY <1>0, <1>3, <2>2, <3>1, ServerWritesItsDraft
    <3> QED
      BY <1>1, <3>2 DEF RoomInv, BusyOnWhatWasShown
  <2> QED
    BY <2>1, <2>2
<1> QED
  BY <1>2, <1>3 DEF DecidedWasShown

(* Nobody's name is put to a version they never saw: decide refuses a      *)
(* review of anything but what the store holds (decide.mjs:334-345), and   *)
(* what it then records and audits is that.                                *)
THEOREM NobodySignsUnseen == RoomSpec => []DecidedWasShown
<1>1. RoomInit => DecidedWasShown
  BY DEF RoomInit, DecidedWasShown, Told
<1>2. TypeOK /\ RoomInv /\ DecidedWasShown /\ [RoomNext]_roomVars => DecidedWasShown'
  BY DecidedWasShownStep
<1> QED
  BY <1>1, <1>2, RoomInvHolds, PTL DEF RoomSpec

-----------------------------------------------------------------------------
(***************************************************************************)
(* The trail and the ledger                                                *)
(***************************************************************************)

(* The decision the trail is told of is the line just written, and the     *)
(* lines written before are still there.                                   *)
LEMMA TrailTellsTheLedgerStep ==
  ASSUME TypeOK, RoomInv, TrailTellsTheLedger, [RoomNext]_roomVars
  PROVE  TrailTellsTheLedger'
<1> SUFFICES ASSUME ~garbled', tail' # "part",
                    NEW act \in Told', act.action \in Verdict
             PROVE  \E i \in viaServer' :
                      /\ <<ledger'[i].proposal, ledger'[i].version>> = act.content
                      /\ ledger'[i].by = act.actor
                      /\ ledger'[i].outcome = IF act.action = "approved" THEN "granted" ELSE "denied"
  BY DEF TrailTellsTheLedger, About
<1>1. /\ \A i \in viaServer : i \in DOMAIN ledger' /\ ledger'[i] = ledger[i]
      /\ ~garbled /\ tail # "part"
  BY RoomStepsAreLedgerSteps, ServersLinesStay
  DEF RoomInv, RoomTypeOK, ScreensAreContents
<1>2. CASE act \in Told
  <2>1. viaServer \subseteq viaServer'
    BY OneActionEach DEF ServerRecorded
  <2> QED
    BY <1>1, <1>2, <2>1 DEF TrailTellsTheLedger, About
<1>3. CASE ServerRecorded /\ act = DecisionAct(IF draft[Server].outcome = "granted"
                                                THEN "approved" ELSE "rejected")
  <2>1. /\ Len(ledger) + 1 \in viaServer'
        /\ ledger'[Len(ledger) + 1] = draft[Server]
        /\ pc[Server] # "idle"
    BY <1>3, ServerWritesItsDraft
  <2>2. draft[Server].outcome \in {"granted", "denied"}
    BY <2>1, ServerAssumption DEF TypeOK, Entry, Outcome
  <2>3. /\ act.content = <<draft[Server].proposal, draft[Server].version>>
        /\ act.actor = draft[Server].by
        /\ act.action = IF draft[Server].outcome = "granted" THEN "approved" ELSE "rejected"
    BY <1>3 DEF DecisionAct
  <2> QED
    BY <2>1, <2>2, <2>3
<1> QED
  BY <1>2, <1>3, WhatIsTold DEF RoomInv, Verdict

(* The trail never tells of a decision that is not in the ledger: decide   *)
(* audits a decision after recordDecision returned it (decide.mjs:445-486).*)
THEOREM TrailIsBacked == RoomSpec => []TrailTellsTheLedger
<1>1. RoomInit => TrailTellsTheLedger
  BY DEF RoomInit, TrailTellsTheLedger, Told
<1>2. TypeOK /\ RoomInv /\ TrailTellsTheLedger /\ [RoomNext]_roomVars => TrailTellsTheLedger'
  BY TrailTellsTheLedgerStep
<1> QED
  BY <1>1, <1>2, RoomInvHolds, PTL DEF RoomSpec

-----------------------------------------------------------------------------
(***************************************************************************)
(* One decision of the server's on one proposal                            *)
(***************************************************************************)

\* The server never holds a decision on a proposal it has decided.
DecidesFirst ==
  pc[Server] # "idle" =>
    \A i \in viaServer : ledger[i].proposal # draft[Server].proposal

(* A decision in the server's hands was just taken on from a reviewer, or  *)
(* is on the proposal it was on before.                                    *)
LEMMA ServersDraft ==
  ASSUME TypeOK, RoomInv, [RoomNext]_roomVars, pc'[Server] # "idle"
  PROVE  \/ \E r \in Person, outcome \in Outcome : Decide(r, outcome)
         \/ pc[Server] # "idle" /\ draft'[Server].proposal = draft[Server].proposal
<1> USE ServerAssumption
<1>1. CASE ReadLedger(Server)
  <2>1. draft' = [draft EXCEPT ![Server] = [draft[Server] EXCEPT !.after = Len(ledger)]]
    BY <1>1 DEF ReadLedger
  <2> QED
    BY <1>1, <2>1 DEF ReadLedger, TypeOK, Entry
<1>2. CASE ServerRefused \/ ServerRecorded \/ ServerDies
  <2>1. pc'[Server] = "idle"
    BY <1>2
    DEF ServerRefused, ServerRecorded, ServerDies, RefuseLedger, AppendEntry, Die,
        Abandon, vars, TypeOK
  <2> QED
    BY <2>1
<1>3. CASE UNCHANGED vars
  BY <1>3 DEF vars
<1>4. CASE (Agents /\ UNCHANGED room) \/ \E w \in Writer : CommandLine(w)
  BY <1>4, OthersLeaveTheServer
<1> QED
  BY <1>1, <1>2, <1>3, <1>4
  DEF RoomNext, roomVars, ServerSteps, Display, RefuseDecision, RequestChanges,
      Auditing, AuditOther, ReadHead, AppendTrail

(* The server takes a decision on when nobody has decided the proposal,    *)
(* and until it has appended none of its own lines appears.                *)
LEMMA ServerDecidesOnceStep ==
  ASSUME TypeOK, RoomInv, DecidesFirst, ServerDecidesOnce, [RoomNext]_roomVars
  PROVE  DecidesFirst' /\ ServerDecidesOnce'
<1>1. \A i \in viaServer : i \in DOMAIN ledger /\ ledger'[i] = ledger[i]
  BY RoomStepsAreLedgerSteps, ServersLinesStay
  DEF RoomInv, RoomTypeOK, ScreensAreContents
<1>2. CASE viaServer' = viaServer
  <2>1. ServerDecidesOnce'
    BY <1>1, <1>2 DEF ServerDecidesOnce
  <2>2. ASSUME pc'[Server] # "idle",
               NEW r \in Person, NEW outcome \in Outcome, Decide(r, outcome)
        PROVE  DecidesFirst'
    <3>1. DecisionsOn(screen[r][1]) = {}
      BY <2>2 DEF Decide, Reviewable, DeriveApproval
    <3>2. ledger' = ledger /\ draft'[Server].proposal = screen[r][1]
      BY <2>2, ServerAssumption DEF Decide, CheckRecords, TypeOK
    <3> QED
      BY <1>1, <1>2, <3>1, <3>2 DEF DecidesFirst, DecisionsOn
  <2>3. ASSUME pc[Server] # "idle",
               draft'[Server].proposal = draft[Server].proposal
        PROVE  DecidesFirst'
    BY <1>1, <1>2, <2>3 DEF DecidesFirst
  <2>4. DecidesFirst'
    BY <2>2, <2>3, ServersDraft DEF DecidesFirst
  <2> QED
    BY <2>1, <2>4
<1>3. CASE viaServer' # viaServer
  <2>1. ServerRecorded
    BY <1>3, OneActionEach
  <2>2. /\ pc[Server] # "idle" /\ pc'[Server] = "idle"
        /\ viaServer' = viaServer \cup {Len(ledger) + 1}
        /\ ledger'[Len(ledger) + 1] = draft[Server]
    BY <1>3, <2>1, ServerWritesItsDraft
  <2>3. \A i \in viaServer : ledger'[i].proposal # ledger'[Len(ledger) + 1].proposal
    BY <1>1, <2>2 DEF DecidesFirst
  <2>4. ASSUME NEW i \in viaServer', NEW j \in viaServer',
               ledger'[i].proposal = ledger'[j].proposal
        PROVE  i = j
    <3>1. CASE i \in viaServer /\ j \in viaServer
      BY <1>1, <2>4, <3>1 DEF ServerDecidesOnce
    <3> QED
      BY <2>2, <2>3, <2>4, <3>1
  <2> QED
    BY <2>2, <2>4 DEF DecidesFirst, ServerDecidesOnce
<1> QED
  BY <1>2, <1>3

(* The server decides a proposal once: deriveApproval reads "pending" only *)
(* where nobody has decided (ledger.mjs), and decide goes on to its append *)
(* without letting another request in (decide.mjs:347-453).                *)
THEOREM OneDecisionThroughTheServer == RoomSpec => []ServerDecidesOnce
<1>1. RoomInit => DecidesFirst /\ ServerDecidesOnce
  BY DEF RoomInit, DecidesFirst, ServerDecidesOnce
<1>2. TypeOK /\ RoomInv /\ DecidesFirst /\ ServerDecidesOnce /\ [RoomNext]_roomVars
        => DecidesFirst' /\ ServerDecidesOnce'
  BY ServerDecidesOnceStep
<1> QED
  BY <1>1, <1>2, RoomInvHolds, PTL DEF RoomSpec

-----------------------------------------------------------------------------
(***************************************************************************)
(* The Orchestrator's view of the server's decisions                       *)
(***************************************************************************)

\* An entry that vouches for line i, written or in the server's hands.
VouchedFor(i) ==
  \/ \E j \in DOMAIN trail :
       trail[j].act.action \in Verdict /\ trail[j].act.content = About(i)
  \/ owed[Server] # Nothing /\ owed[Server][1].action \in Verdict
       /\ owed[Server][1].content = About(i)

EveryLineIsVouchedFor == \A i \in viaServer \ forgotten : VouchedFor(i)

(* From the append to the ledger on, an entry that vouches for the line is *)
(* in the server's hands and then in the trail, unless the server dies.    *)
LEMMA EveryLineIsVouchedForStep ==
  ASSUME TypeOK, RoomInv, EveryLineIsVouchedFor, [RoomNext]_roomVars
  PROVE  EveryLineIsVouchedFor'
<1> USE ServerAssumption
<1> DEFINE AboutNext(i) == <<ledger'[i].proposal, ledger'[i].version>>
<1> SUFFICES ASSUME NEW i \in viaServer', i \notin forgotten'
             PROVE  \/ \E j \in DOMAIN trail' :
                         /\ trail'[j].act.action \in Verdict
                         /\ trail'[j].act.content = AboutNext(i)
                    \/ /\ owed'[Server] # Nothing
                       /\ owed'[Server][1].action \in Verdict
                       /\ owed'[Server][1].content = AboutNext(i)
  BY DEF EveryLineIsVouchedFor, VouchedFor, About
<1>0. /\ \A k \in viaServer : AboutNext(k) = About(k)
      /\ trail \in Seq(AuditEntry)
      /\ owed \in [Auditor -> Owed \cup {Nothing}]
  BY RoomStepsAreLedgerSteps, ServersLinesStay
  DEF RoomInv, RoomTypeOK, ScreensAreContents, About, Owed
<1>1. \A j \in DOMAIN trail : j \in DOMAIN trail' /\ trail'[j] = trail[j]
  <2>1. CASE trail' = trail
    BY <2>1
  <2>2. ASSUME NEW a \in Auditor, AppendTrail(a)
        PROVE  \A j \in DOMAIN trail : j \in DOMAIN trail' /\ trail'[j] = trail[j]
    BY <1>0, <2>2 DEF AppendTrail
  <2> QED
    BY <2>1, <2>2, OneActionEach
<1>2. CASE ServerRecorded /\ viaServer' # viaServer /\ i = Len(ledger) + 1
  <2>1. ledger'[i] = draft[Server]
    BY <1>2, ServerWritesItsDraft
  <2>2. PICK action \in Verdict : Owe(Server, DecisionAct(action))
    BY <1>2 DEF ServerRecorded, Verdict
  <2>3. owed'[Server] = <<DecisionAct(action), Nothing>>
    BY <1>0, <2>2 DEF Owe
  <2>4. <<DecisionAct(action), Nothing>> # Nothing
    <3>1. DecisionAct(action) \in Act
      BY <1>2, DecisionActIsAnAct DEF ServerRecorded, AppendEntry, Verdict
    <3> QED
      BY <3>1, NothingAssumption
  <2>5. DecisionAct(action).action = action /\ DecisionAct(action).content = AboutNext(i)
    BY <2>1 DEF DecisionAct
  <2> HIDE DEF AboutNext
  <2> QED
    BY <2>3, <2>4, <2>5
<1>3. i \notin viaServer => ServerRecorded /\ viaServer' # viaServer /\ i = Len(ledger) + 1
  BY OneActionEach, ServerWritesItsDraft
<1>4. forgotten \subseteq forgotten'
  BY OneActionEach DEF ServerDies
<1>5. CASE i \in viaServer /\ \E j \in DOMAIN trail : /\ trail[j].act.action \in Verdict
                                                     /\ trail[j].act.content = About(i)
  BY <1>0, <1>1, <1>5
<1>6. CASE /\ i \in viaServer
           /\ owed[Server] # Nothing
           /\ owed[Server][1].action \in Verdict
           /\ owed[Server][1].content = About(i)
  <2>1. CASE owed'[Server] = owed[Server]
    BY <1>0, <1>6, <2>1
  <2>2. CASE ReadHead(Server)
    <3>1. PICK told \in Act : /\ owed[Server] = <<told, Nothing>>
                              /\ owed' = [owed EXCEPT ![Server] = <<told, Len(trail)>>]
      BY <2>2, HeadIsRead DEF RoomInv
    <3>2. owed'[Server] = <<told, Len(trail)>>
      BY <1>0, <3>1
    <3>3. <<told, Len(trail)>> # Nothing
      BY <1>0, NothingAssumption
    <3> QED
      BY <1>0, <1>6, <3>1, <3>2, <3>3
  <2>3. CASE AppendTrail(Server)
    <3> DEFINE new == [act |-> owed[Server][1], prev |-> owed[Server][2], writer |-> Server]
    <3>1. trail' = Append(trail, new)
      BY <2>3 DEF AppendTrail
    <3>2. new.act = owed[Server][1]
      OBVIOUS
    <3> HIDE DEF new
    <3>3. Len(trail) + 1 \in DOMAIN trail' /\ trail'[Len(trail) + 1] = new
      BY <1>0, <3>1
    <3> QED
      BY <1>0, <1>6, <3>2, <3>3
  <2>4. CASE ServerDies
    <3>1. i \in forgotten'
      BY <1>6, <2>4 DEF ServerDies
    <3> QED
      BY <3>1
  <2>5. \/ owed'[Server] = owed[Server]
        \/ ReadHead(Server) \/ AppendTrail(Server) \/ ServerDies
        \/ owed[Server] = Nothing
        \/ pc[Server] # "idle"
    <3>1. ASSUME NEW a \in Auditor, a # Server, ReadHead(a) \/ AppendTrail(a) \/ AuditOther(a)
          PROVE  owed'[Server] = owed[Server]
      <4>1. \E x : owed' = [owed EXCEPT ![a] = x]
        BY <3>1 DEF ReadHead, AppendTrail, AuditOther, Owe
      <4> QED
        BY <1>0, <3>1, <4>1
    <3>2. CASE ServerRefused \/ ServerRecorded
      BY <3>2 DEF ServerRefused, ServerRecorded, RefuseLedger, AppendEntry
    <3> QED
      BY <3>1, <3>2
      DEF RoomNext, roomVars, room, CommandLine, ServerSteps, Display, Decide,
          RefuseDecision, RequestChanges, Submits, Auditing, AuditOther
  <2> QED
    BY <1>6, <2>1, <2>2, <2>3, <2>4, <2>5 DEF RoomInv, BusyOnWhatWasShown
<1>7. i \in viaServer => VouchedFor(i)
  BY <1>4 DEF EveryLineIsVouchedFor
<1> QED
  BY <1>2, <1>3, <1>5, <1>6, <1>7 DEF VouchedFor

(* The last line on a proposal is the decision that counts.                *)
LEMMA LastDecisionIsTheLast ==
  ASSUME ledger \in Seq(Entry), NEW p \in Proposal, NEW i \in DecisionsOn(p),
         \A j \in DecisionsOn(p) : j <= i
  PROVE  LastDecision(p) = ledger[i]
<1> DEFINE Last(k) == \A j \in DecisionsOn(p) : j <= k
<1>1. DecisionsOn(p) \subseteq Nat
  BY DEF DecisionsOn
<1>2. \A k \in DecisionsOn(p) : Last(k) => k = i
  BY <1>1
<1>3. (CHOOSE k \in DecisionsOn(p) : Last(k)) = i
  BY <1>2
<1> QED
  BY <1>3 DEF LastDecision

(* The server's decisions are known for its own (corroborate,              *)
(* approval.mjs:210-236): any entry on the same content vouches, and the   *)
(* server's own is there unless it is still to come or died with it.       *)
THEOREM ServerIsVouchedFor == RoomSpec => []ServersDecisionsAreVouched
<1>1. RoomInit => EveryLineIsVouchedFor
  BY DEF RoomInit, EveryLineIsVouchedFor
<1>2. TypeOK /\ RoomInv /\ EveryLineIsVouchedFor /\ [RoomNext]_roomVars
        => EveryLineIsVouchedFor'
  BY EveryLineIsVouchedForStep
<1>3. TypeOK /\ EveryLineIsVouchedFor => ServersDecisionsAreVouched
  <2> SUFFICES ASSUME TypeOK, EveryLineIsVouchedFor,
                      NEW p \in Proposal, NEW i \in viaServer \ forgotten,
                      i \in DecisionsOn(p), \A j \in DecisionsOn(p) : j <= i,
                      owed[Server] = Nothing
               PROVE  Corroborate(p) = "authenticated"
    BY DEF ServersDecisionsAreVouched
  <2>1. PICK j \in DOMAIN trail :
          trail[j].act.action \in Verdict /\ trail[j].act.content = About(i)
    BY DEF EveryLineIsVouchedFor, VouchedFor
  <2>2. ledger[i].proposal = p /\ LastDecision(p) = ledger[i]
    BY LastDecisionIsTheLast DEF DecisionsOn, TypeOK
  <2>3. j \in EntriesOn(p, Verdict)
    BY <2>1, <2>2 DEF EntriesOn, About
  <2>4. trail # <<>>
    BY <2>1
  <2> QED
    BY <2>3, <2>4 DEF Corroborate
<1> QED
  BY <1>1, <1>2, <1>3, RoomInvHolds, PTL DEF RoomSpec

-----------------------------------------------------------------------------
(***************************************************************************)
(* The chain of the audit trail                                            *)
(***************************************************************************)

\* Since a process read the head, only others have appended.
OthersAppendedSince ==
  \A a \in Auditor :
    owed[a] # Nothing /\ owed[a][2] # Nothing =>
      /\ owed[a][2] <= Len(trail)
      /\ \A i \in DOMAIN trail : i > owed[a][2] => trail[i].writer # a

(* An entry is appended to the head its writer read, or after entries that *)
(* other processes put there since.                                        *)
LEMMA OthersAppendedSinceStep ==
  ASSUME TypeOK, RoomInv, OthersAppendedSince, OnlyAnotherProcessBreaks,
         [RoomNext]_roomVars
  PROVE  OthersAppendedSince' /\ OnlyAnotherProcessBreaks'
<1> USE ServerAssumption
<1>0. /\ trail \in Seq(AuditEntry) /\ Len(trail) \in Nat
      /\ DOMAIN trail = 1 .. Len(trail)
      /\ owed \in [Auditor -> Owed \cup {Nothing}]
  BY DEF RoomInv, RoomTypeOK, Owed
<1>1. ASSUME trail' = trail,
             \A a \in Auditor : owed'[a] = owed[a] \/ owed'[a] = Nothing
                                \/ owed'[a][2] = Nothing \/ owed'[a][2] = Len(trail)
      PROVE  OthersAppendedSince' /\ OnlyAnotherProcessBreaks'
  <2>1. OnlyAnotherProcessBreaks'
    BY <1>1 DEF OnlyAnotherProcessBreaks, Chained
  <2>2. ASSUME NEW a \in Auditor, owed'[a] # Nothing, owed'[a][2] # Nothing
        PROVE  /\ owed'[a][2] <= Len(trail)
               /\ \A i \in DOMAIN trail : i > owed'[a][2] => trail[i].writer # a
    BY <1>0, <1>1, <2>2 DEF OthersAppendedSince
  <2> QED
    BY <1>1, <2>1, <2>2 DEF OthersAppendedSince
<1>2. ASSUME NEW a \in Auditor, AppendTrail(a)
      PROVE  OthersAppendedSince' /\ OnlyAnotherProcessBreaks'
  <2> DEFINE n == Len(trail)
             new == [act |-> owed[a][1], prev |-> owed[a][2], writer |-> a]
  <2>1. /\ owed[a] # Nothing /\ owed[a][2] # Nothing
        /\ trail' = Append(trail, new)
        /\ owed' = [owed EXCEPT ![a] = Nothing]
    BY <1>2 DEF AppendTrail
  <2>2. new.prev = owed[a][2] /\ new.writer = a
    OBVIOUS
  <2>3. /\ owed[a][2] \in Nat /\ owed[a][2] <= n
        /\ \A i \in 1 .. n : i > owed[a][2] => trail[i].writer # a
    BY <1>0, <2>1 DEF Owed, OthersAppendedSince
  <2> HIDE DEF new
  <2>4. /\ DOMAIN trail' = 1 .. (n + 1) /\ Len(trail') = n + 1
        /\ trail'[n + 1] = new
        /\ \A i \in 1 .. n : trail'[i] = trail[i]
    BY <1>0, <2>1
  <2>5. ASSUME NEW b \in Auditor, owed'[b] # Nothing, owed'[b][2] # Nothing
        PROVE  /\ owed'[b][2] <= n + 1
               /\ \A i \in 1 .. (n + 1) : i > owed'[b][2] => trail'[i].writer # b
    <3>1. b # a /\ owed'[b] = owed[b]
      BY <1>0, <2>1, <2>5
    <3>2. /\ owed[b][2] \in Nat /\ owed[b][2] <= n
          /\ \A i \in 1 .. n : i > owed[b][2] => trail[i].writer # b
      BY <1>0, <2>5, <3>1 DEF Owed, OthersAppendedSince
    <3> QED
      BY <1>0, <2>2, <2>4, <3>1, <3>2
  <2>6. OthersAppendedSince'
    BY <2>4, <2>5 DEF OthersAppendedSince
  <2>7. ASSUME NEW i \in 1 .. (n + 1), trail'[i].prev # i - 1
        PROVE  i > 1 /\ trail'[i - 1].writer # trail'[i].writer
    <3>1. CASE i = n + 1
      <4>1. owed[a][2] < n
        BY <1>0, <2>2, <2>3, <2>4, <2>7, <3>1
      <4>2. n \in 1 .. n /\ trail[n].writer # a
        BY <1>0, <2>3, <4>1
      <4> QED
        BY <1>0, <2>2, <2>4, <3>1, <4>2
    <3>2. CASE i \in 1 .. n
      <4>1. ~ Chained(i)
        BY <2>4, <2>7, <3>2 DEF Chained
      <4>2. i > 1 /\ trail[i - 1].writer # trail[i].writer
        BY <1>0, <3>2, <4>1 DEF OnlyAnotherProcessBreaks
      <4>3. i - 1 \in 1 .. n
        BY <1>0, <3>2, <4>2
      <4> QED
        BY <2>4, <3>2, <4>2, <4>3
    <3> QED
      BY <1>0, <3>1, <3>2
  <2> QED
    BY <2>4, <2>6, <2>7 DEF OnlyAnotherProcessBreaks, Chained
<1>3. ASSUME NEW a \in Auditor, NEW act, Owe(a, act), trail' = trail
      PROVE  OthersAppendedSince' /\ OnlyAnotherProcessBreaks'
  <2>1. \A b \in Auditor : owed'[b] = IF b = a THEN <<act, Nothing>> ELSE owed[b]
    BY <1>0, <1>3 DEF Owe
  <2> QED
    BY <1>1, <1>3, <2>1
<1>4. ASSUME NEW a \in Auditor, ReadHead(a)
      PROVE  OthersAppendedSince' /\ OnlyAnotherProcessBreaks'
  <2>1. PICK told \in Act : owed' = [owed EXCEPT ![a] = <<told, Len(trail)>>]
    BY <1>4, HeadIsRead DEF RoomInv
  <2>2. \A b \in Auditor : owed'[b] = IF b = a THEN <<told, Len(trail)>> ELSE owed[b]
    BY <1>0, <2>1
  <2> QED
    BY <1>1, <1>4, <2>2 DEF ReadHead
<1>5. CASE ServerDies
  <2>1. \A b \in Auditor : owed'[b] = IF b = Server THEN Nothing ELSE owed[b]
    BY <1>0, <1>5 DEF ServerDies
  <2> QED
    BY <1>1, <1>5, <2>1 DEF ServerDies
<1>6. CASE UNCHANGED <<trail, owed>>
  BY <1>1, <1>6
<1> QED
  BY <1>2, <1>3, <1>4, <1>5, <1>6
  DEF RoomNext, roomVars, room, CommandLine, ServerSteps, Display, Decide,
      RefuseDecision, RequestChanges, ServerRefused, ServerRecorded, Auditing, AuditOther

(* A break that verifyChain finds (audit.mjs:252-271) in an untouched      *)
(* trail lies between the entries of two processes, however many write it. *)
THEOREM OneProcessChains == RoomSpec => []OnlyAnotherProcessBreaks
<1>1. RoomInit => OthersAppendedSince /\ OnlyAnotherProcessBreaks
  BY DEF RoomInit, OthersAppendedSince, OnlyAnotherProcessBreaks
<1>2. TypeOK /\ RoomInv /\ OthersAppendedSince /\ OnlyAnotherProcessBreaks
        /\ [RoomNext]_roomVars => OthersAppendedSince' /\ OnlyAnotherProcessBreaks'
  BY OthersAppendedSinceStep
<1> QED
  BY <1>1, <1>2, RoomInvHolds, PTL DEF RoomSpec
=============================================================================
