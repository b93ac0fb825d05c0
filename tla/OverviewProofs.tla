---------------------------- MODULE OverviewProofs ----------------------------
(***************************************************************************)
(* Proofs about Overview: for any joints, values and bounds a page has one *)
(* motion on its way at most, what was drafted for one target is not sent  *)
(* to another, and a slider that was released is not forgotten.            *)
(***************************************************************************)
EXTENDS Overview, TLAPS, FiniteSetTheorems, WellFoundedInduction

(***************************************************************************)
(* Types                                                                   *)
(***************************************************************************)
Positions == Values \union {Home}
Targets == [Joints -> Positions \union {None}]
Actions == {"none"} \union Moves
Lists == {"nothing", "target"} \union Kinds

SeenDevices ==
    [kind : Kinds, epoch : Nat, pos : [Joints -> Positions],
     action : Actions, moving : BOOLEAN, size : Nat]

Jobs == [by : {"page", "unheard", "other"}, action : Moves, joints : Targets]
Devices ==
    [kind : Kinds, epoch : Nat, pos : [Joints -> Positions],
     moving : BOOLEAN, jobs : Seq(Jobs), owner : BOOLEAN]

Commands ==
    [action : Moves, joints : Targets, epoch : Nat, made : Nat,
     early : BOOLEAN, kind : Kinds, known : BOOLEAN, asked : BOOLEAN]

StateMessages == [type : {"state"}, device : SeenDevices]
ControlMessages == [type : {"control"}, owner : BOOLEAN]
EndedMessages == [type : {"ended"}]
Messages == StateMessages \union ControlMessages \union EndedMessages

Pendings ==
    [joint : Joints \union {None}, value : Values \union {None}, made : Nat]
Locals ==
    [open : BOOLEAN, draft : Targets, made : Nat, preview : Targets,
     pending : Pendings, commit : BOOLEAN, held : BOOLEAN, inFlight : BOOLEAN]
Panels == [draft : [Joints -> Positions], made : Nat]
Dialogs == [joints : Targets, epoch : Nat, made : Nat]

PageType ==
    /\ shown \in [device : SeenDevices, control : BOOLEAN, listed : Lists]
    /\ moves \in Int
    /\ local # None => local \in Locals
    /\ panel # None => panel \in Panels
    /\ dialog # None => dialog \in Dialogs
    /\ due \subseteq {"target", "state", "list"}

TypeOK ==
    /\ PageType
    /\ up \in Seq(Commands) /\ down \in Seq(Messages)
    /\ device \in Devices
    /\ device.moving => device.jobs # <<>>
    /\ edits \in Nat /\ events \in Nat

(***************************************************************************)
(* One motion: pending in the store, on its way, at the device, or ended   *)
(* and not yet heard of.                                                   *)
(***************************************************************************)
NoPage(jobs) == \A i \in DOMAIN jobs : jobs[i].by # "page"
OnePage(jobs) ==
    \E k \in DOMAIN jobs : \A i \in DOMAIN jobs :
        (jobs[i].by = "page") <=> i = k
NoEnd(msgs) == \A i \in DOMAIN msgs : msgs[i].type # "ended"
OneEnd(msgs) ==
    \E k \in DOMAIN msgs : \A i \in DOMAIN msgs :
        (msgs[i].type = "ended") <=> i = k

InOnePlace(n, u, jobs, msgs) ==
    \/ n = 0 /\ u = <<>> /\ NoPage(jobs) /\ NoEnd(msgs)
    \/ n = 1 /\ Len(u) = 1 /\ NoPage(jobs) /\ NoEnd(msgs)
    \/ n = 1 /\ u = <<>> /\ OnePage(jobs) /\ NoEnd(msgs)
    \/ n = 1 /\ u = <<>> /\ NoPage(jobs) /\ OneEnd(msgs)

OneMove == InOnePlace(moves, up, device.jobs, down)

(***************************************************************************)
(* Drafts: what the page keeps was made for the target it shows, until the *)
(* effects of a new target have run.                                       *)
(***************************************************************************)
Fits(l, epoch) ==
    /\ l.draft # NoDraft => l.made = epoch
    /\ l.pending # NoPending => l.pending.made = epoch

DraftsFit ==
    /\ local # None => "target" \in due \/ Fits(local, shown.device.epoch)
    /\ panel # None => panel.made = shown.device.epoch
    /\ dialog # None => "target" \in due \/ dialog.made = dialog.epoch

-----------------------------------------------------------------------------
(* The last message of a type in a batch.                                  *)
LEMMA LastIndex ==
    ASSUME NEW n \in Nat, NEW I \in SUBSET (1 .. n), I # {}
    PROVE  Max(I) \in I
  <1> DEFINE T == {n - i : i \in I}
  <1>1. T \subseteq Nat /\ T # {}
    <2>1. \A i \in I : i \in Int /\ n - i \in Nat
      OBVIOUS
    <2>2. PICK i \in I : TRUE
      OBVIOUS
    <2>3. n - i \in T
      OBVIOUS
    <2> QED BY <2>1, <2>3
  <1>2. \E x \in T : \A y \in T : ~ (<<y, x>> \in OpToRel(<, Nat))
    <2> HIDE DEF T
    <2> QED BY <1>1, WFMin, NatLessThanWellFounded
  <1>3. PICK x \in T : \A y \in T : ~ (y < x)
    BY <1>1, <1>2 DEF OpToRel
  <1>4. PICK k \in I : x = n - k
    BY <1>3
  <1>5. \A i \in I : k >= i
    BY <1>3, <1>4
  <1> QED BY <1>5 DEF Max

LEMMA LastOfBatch ==
    ASSUME NEW read \in Seq(Messages), NEW type, LastOf(read, type) # 0
    PROVE  /\ LastOf(read, type) \in DOMAIN read
           /\ read[LastOf(read, type)].type = type
  <1> DEFINE I == {i \in 1 .. Len(read) : read[i].type = type}
  <1>1. I # {} /\ LastOf(read, type) = Max(I)
    BY DEF LastOf, SelectLastInSeq
  <1>2. Max(I) \in I
    <2> HIDE DEF I
    <2>1. I \in SUBSET (1 .. Len(read))
      BY DEF I
    <2>2. Len(read) \in Nat
      OBVIOUS
    <2> QED BY <1>1, <2>1, <2>2, LastIndex
  <1> QED BY <1>1, <1>2

LEMMA ReducedType ==
    ASSUME TypeOK, NEW read \in Seq(Messages)
    PROVE  Reduced(read) \in [device : SeenDevices, control : BOOLEAN,
                              listed : Lists]
  <1>1. LastOf(read, "state") # 0 =>
            read[LastOf(read, "state")].device \in SeenDevices
    BY LastOfBatch DEF Messages, StateMessages, ControlMessages, EndedMessages
  <1>2. LastOf(read, "control") # 0 =>
            read[LastOf(read, "control")].owner \in BOOLEAN
    BY LastOfBatch DEF Messages, StateMessages, ControlMessages, EndedMessages
  <1> HIDE DEF SeenDevices
  <1> QED BY <1>1, <1>2 DEF Reduced, TypeOK, PageType

(* Ends of a batch in which at most one motion ends.                       *)
LEMMA EndsOfBatch ==
    ASSUME NEW read \in Seq(Messages)
    PROVE  /\ NoEnd(read) => Ends(read) = 0
           /\ OneEnd(read) => Ends(read) = 1
           /\ Ends(read) \in Nat
  <1> DEFINE E == {i \in DOMAIN read : read[i].type = "ended"}
  <1>1. Ends(read) = Cardinality(E)
    BY DEF Ends, Quantify
  <1>2. NoEnd(read) => E = {}
    BY DEF NoEnd
  <1>3. OneEnd(read) => \E k : E = {k}
    BY DEF OneEnd
  <1>4. IsFiniteSet(E)
    <2>1. IsFiniteSet(DOMAIN read)
      BY FS_Interval
    <2> QED BY <2>1, FS_Subset
  <1> HIDE DEF E
  <1> QED BY <1>1, <1>2, <1>3, <1>4, FS_EmptySet, FS_Singleton, FS_CardinalityType

-----------------------------------------------------------------------------
(* A motion of the page among others, as jobs and messages come and go.    *)
LEMMA JobQueued ==
    ASSUME NEW jobs \in Seq(Jobs), NEW j \in Jobs
    PROVE  /\ NoPage(jobs) /\ j.by # "page" => NoPage(Append(jobs, j))
           /\ OnePage(jobs) /\ j.by # "page" => OnePage(Append(jobs, j))
           /\ NoPage(jobs) /\ j.by = "page" => OnePage(Append(jobs, j))
  <1>1. ASSUME NoPage(jobs), j.by # "page" PROVE NoPage(Append(jobs, j))
    BY <1>1 DEF NoPage
  <1>2. ASSUME OnePage(jobs), j.by # "page" PROVE OnePage(Append(jobs, j))
    <2>1. PICK k \in DOMAIN jobs : \A i \in DOMAIN jobs :
                                     (jobs[i].by = "page") <=> i = k
      BY <1>2 DEF OnePage
    <2>2. k \in DOMAIN Append(jobs, j)
      OBVIOUS
    <2>3. \A i \in DOMAIN Append(jobs, j) :
              (Append(jobs, j)[i].by = "page") <=> i = k
      BY <1>2, <2>1
    <2> QED BY <2>2, <2>3 DEF OnePage
  <1>3. ASSUME NoPage(jobs), j.by = "page" PROVE OnePage(Append(jobs, j))
    <2>1. Len(jobs) + 1 \in DOMAIN Append(jobs, j)
      OBVIOUS
    <2>2. \A i \in DOMAIN Append(jobs, j) :
              (Append(jobs, j)[i].by = "page") <=> i = Len(jobs) + 1
      BY <1>3 DEF NoPage
    <2> QED BY <2>1, <2>2 DEF OnePage
  <1> QED BY <1>1, <1>2, <1>3

LEMMA JobDone ==
    ASSUME NEW jobs \in Seq(Jobs), jobs # <<>>
    PROVE  /\ NoPage(jobs) => NoPage(Tail(jobs)) /\ Head(jobs).by # "page"
           /\ OnePage(jobs) /\ Head(jobs).by # "page" => OnePage(Tail(jobs))
           /\ OnePage(jobs) /\ Head(jobs).by = "page" => NoPage(Tail(jobs))
  <1>1. ASSUME NoPage(jobs) PROVE NoPage(Tail(jobs)) /\ Head(jobs).by # "page"
    BY <1>1 DEF NoPage
  <1>2. ASSUME OnePage(jobs)
        PROVE  /\ Head(jobs).by # "page" => OnePage(Tail(jobs))
               /\ Head(jobs).by = "page" => NoPage(Tail(jobs))
    <2>1. PICK k \in DOMAIN jobs : \A i \in DOMAIN jobs :
                                     (jobs[i].by = "page") <=> i = k
      BY <1>2 DEF OnePage
    <2>2. CASE k = 1
      <3>1. \A i \in DOMAIN Tail(jobs) : Tail(jobs)[i].by # "page"
        BY <2>1, <2>2
      <3> QED BY <2>1, <2>2, <3>1 DEF NoPage
    <2>3. CASE k # 1
      <3>1. k - 1 \in DOMAIN Tail(jobs)
        BY <2>3
      <3>2. \A i \in DOMAIN Tail(jobs) :
                (Tail(jobs)[i].by = "page") <=> i = k - 1
        BY <2>1, <2>3
      <3>3. Head(jobs).by # "page"
        BY <2>1, <2>3
      <3> QED BY <3>1, <3>2, <3>3 DEF OnePage
    <2> QED BY <2>2, <2>3
  <1> QED BY <1>1, <1>2

LEMMA MessageSent ==
    ASSUME NEW msgs \in Seq(Messages), NEW m \in Messages
    PROVE  /\ NoEnd(msgs) /\ m.type # "ended" => NoEnd(Append(msgs, m))
           /\ OneEnd(msgs) /\ m.type # "ended" => OneEnd(Append(msgs, m))
           /\ NoEnd(msgs) /\ m.type = "ended" => OneEnd(Append(msgs, m))
  <1>1. ASSUME NoEnd(msgs), m.type # "ended" PROVE NoEnd(Append(msgs, m))
    BY <1>1 DEF NoEnd
  <1>2. ASSUME OneEnd(msgs), m.type # "ended" PROVE OneEnd(Append(msgs, m))
    <2>1. PICK k \in DOMAIN msgs : \A i \in DOMAIN msgs :
                                     (msgs[i].type = "ended") <=> i = k
      BY <1>2 DEF OneEnd
    <2>2. k \in DOMAIN Append(msgs, m)
      OBVIOUS
    <2>3. \A i \in DOMAIN Append(msgs, m) :
              (Append(msgs, m)[i].type = "ended") <=> i = k
      BY <1>2, <2>1
    <2> QED BY <2>2, <2>3 DEF OneEnd
  <1>3. ASSUME NoEnd(msgs), m.type = "ended" PROVE OneEnd(Append(msgs, m))
    <2>1. Len(msgs) + 1 \in DOMAIN Append(msgs, m)
      OBVIOUS
    <2>2. \A i \in DOMAIN Append(msgs, m) :
              (Append(msgs, m)[i].type = "ended") <=> i = Len(msgs) + 1
      BY <1>3 DEF NoEnd
    <2> QED BY <2>1, <2>2 DEF OneEnd
  <1> QED BY <1>1, <1>2, <1>3

LEMMA BatchRead ==
    ASSUME NEW msgs \in Seq(Messages), NEW n \in 1 .. Len(msgs)
    PROVE  LET read == SubSeq(msgs, 1, n)
               rest == SubSeq(msgs, n + 1, Len(msgs)) IN
           /\ read \in Seq(Messages) /\ rest \in Seq(Messages)
           /\ NoEnd(msgs) => NoEnd(read) /\ NoEnd(rest)
           /\ OneEnd(msgs) => \/ OneEnd(read) /\ NoEnd(rest)
                              \/ NoEnd(read) /\ OneEnd(rest)
  <1> DEFINE read == SubSeq(msgs, 1, n)
             rest == SubSeq(msgs, n + 1, Len(msgs))
  <1>1. /\ read \in Seq(Messages) /\ Len(read) = n
        /\ \A i \in 1 .. n : read[i] = msgs[i]
    OBVIOUS
  <1>2. /\ rest \in Seq(Messages) /\ Len(rest) = Len(msgs) - n
        /\ \A i \in 1 .. Len(msgs) - n : rest[i] = msgs[i + n]
    <2>1. CASE n = Len(msgs)
      <3>1. rest = <<>>
        BY <2>1
      <3> QED BY <2>1, <3>1
    <2>2. CASE n < Len(msgs)
      BY <2>2
    <2> QED BY <2>1, <2>2
  <1> HIDE DEF read, rest
  <1>3. /\ DOMAIN read = 1 .. n /\ DOMAIN rest = 1 .. Len(msgs) - n
        /\ DOMAIN msgs = 1 .. Len(msgs) /\ Len(msgs) \in Nat
    BY <1>1, <1>2
  <1>4. \A i \in DOMAIN rest : /\ i \in Int /\ i > 0 /\ i + n \in DOMAIN msgs
                               /\ rest[i] = msgs[i + n]
    BY <1>2, <1>3
  <1>5. ASSUME NoEnd(msgs) PROVE NoEnd(read) /\ NoEnd(rest)
    BY <1>1, <1>3, <1>4, <1>5 DEF NoEnd
  <1>6. ASSUME OneEnd(msgs)
        PROVE  \/ OneEnd(read) /\ NoEnd(rest)
               \/ NoEnd(read) /\ OneEnd(rest)
    <2>1. PICK k \in DOMAIN msgs : \A i \in DOMAIN msgs :
                                     (msgs[i].type = "ended") <=> i = k
      BY <1>6 DEF OneEnd
    <2>2. CASE k <= n
      <3>1. k \in DOMAIN read
        BY <1>1, <2>2
      <3>2. \A i \in DOMAIN read : (read[i].type = "ended") <=> i = k
        BY <1>1, <2>1
      <3>3. NoEnd(rest)
        BY <1>3, <1>4, <2>1, <2>2 DEF NoEnd
      <3> QED BY <3>1, <3>2, <3>3 DEF OneEnd
    <2>3. CASE k > n
      <3>1. k - n \in DOMAIN rest
        BY <1>3, <2>3
      <3>2. \A i \in DOMAIN rest : (rest[i].type = "ended") <=> i = k - n
        BY <1>3, <1>4, <2>1
      <3>3. NoEnd(read)
        BY <1>1, <2>1, <2>3 DEF NoEnd
      <3> QED BY <3>1, <3>2, <3>3 DEF OneEnd
    <2> QED BY <2>2, <2>3
  <1> QED BY <1>1, <1>2, <1>5, <1>6 DEF read, rest

-----------------------------------------------------------------------------
(***************************************************************************)
(* The invariant, and what a step of the page may do of it: it changes its *)
(* own state, and sends one command at most, as it was meant.              *)
(***************************************************************************)
Inv == TypeOK /\ OneMove /\ DraftsFit /\ SentAsMeant

AsMeant(c) ==
    /\ c.made = c.epoch \/ c.early
    /\ c.kind = "remote" /\ c.known /\ c.action = "absolute_move" => c.asked

Sends ==
    /\ MayMove /\ moves' = moves + 1
    /\ \E c \in Commands : AsMeant(c) /\ up' = Append(up, c)

PageStep ==
    /\ PageType' /\ DraftsFit'
    /\ NothingSent \/ Sends
    /\ UNCHANGED <<down, device>>
    /\ edits' \in Nat /\ events' \in Nat

LEMMA TypesOfParts ==
    /\ NoDraft \in Targets /\ NoPending \in Pendings /\ Fresh \in Locals
    /\ AtHome \in [Joints -> Positions]
    /\ \A t \in [Joints -> Positions] : t \in Targets
    /\ \A j, v : v \in Values \union {None} => Single(j, v) \in Targets
  BY OverviewAssumption DEF NoDraft, Targets, NoPending, Pendings, Fresh,
     Locals, AtHome, Positions, Single

LEMMA SeenType ==
    ASSUME NEW d \in Devices, d.moving => d.jobs # <<>>
    PROVE  Seen(d) \in SeenDevices
  <1>1. d.moving => Head(d.jobs) \in Jobs
    BY DEF Devices
  <1>2. d.moving => Head(d.jobs).action \in Actions
    BY <1>1 DEF Jobs, Actions
  <1>3. /\ d.kind \in Kinds /\ d.epoch \in Nat /\ d.pos \in [Joints -> Positions]
        /\ d.moving \in BOOLEAN /\ Len(d.jobs) \in Nat
    BY DEF Devices
  <1> QED BY <1>2, <1>3 DEF Seen, SeenDevices, Actions

LEMMA SendMeans ==
    ASSUME TypeOK, MayMove, NEW action \in Moves, NEW joints \in Targets,
           NEW made \in Nat, NEW asked \in BOOLEAN,
           SendCommand(action, joints, made, asked),
           made = shown.device.epoch \/ "target" \in due,
           asked \/ ~IsRemote \/ action # "absolute_move"
    PROVE  Sends
  <1> DEFINE c == [action |-> action, joints |-> joints,
                   epoch |-> shown.device.epoch,
                   made |-> made, early |-> "target" \in due,
                   kind |-> shown.device.kind,
                   known |-> shown.listed = "target", asked |-> asked]
  <1>1. shown.device.epoch \in Nat /\ shown.device.kind \in Kinds
    BY DEF TypeOK, PageType, SeenDevices
  <1>2. c \in Commands
    BY <1>1 DEF Commands
  <1>3. AsMeant(c)
    BY DEF AsMeant, IsRemote, TargetIs
  <1>4. up' = Append(up, c) /\ moves' = moves + 1
    BY DEF SendCommand
  <1> QED BY <1>2, <1>3, <1>4 DEF Sends

LEMMA MoveMeans ==
    ASSUME TypeOK, MayMove, NEW joints \in Targets, NEW made \in Nat,
           NEW asked \in BOOLEAN, SendMove(joints, made, asked),
           made = shown.device.epoch \/ "target" \in due,
           asked \/ ~IsRemote
    PROVE  Sends
  <1>1. "absolute_move" \in Moves
    BY DEF Moves
  <1> QED BY <1>1, SendMeans DEF SendMove

LEMMA FlushMeans ==
    ASSUME TypeOK, NEW l \in Locals, FlushSimulatorJoint(l), IsSimulator,
           "target" \in due \/ Fits(l, shown.device.epoch)
    PROVE  /\ local' \in Locals
           /\ Fits(l, shown.device.epoch) => Fits(local', shown.device.epoch)
           /\ NothingSent \/ Sends
  <1>1. CASE local' = l /\ NothingSent
    BY <1>1
  <1>2. CASE /\ l.pending # NoPending /\ MayMove
             /\ local' = [l EXCEPT !.pending = NoPending, !.commit = FALSE,
                                   !.inFlight = TRUE]
             /\ SendMove(Single(l.pending.joint, l.pending.value),
                         l.pending.made, FALSE)
    <2>1. local' \in Locals
      BY <1>2, TypesOfParts DEF Locals
    <2>2. local'.draft = l.draft /\ local'.made = l.made
          /\ local'.pending = NoPending
      BY <1>2 DEF Locals
    <2>3. l.pending \in Pendings
      BY DEF Locals
    <2>4. /\ Single(l.pending.joint, l.pending.value) \in Targets
          /\ l.pending.made \in Nat
      BY <2>3, TypesOfParts DEF Pendings
    <2>5. l.pending.made = shown.device.epoch \/ "target" \in due
      BY <1>2 DEF Fits
    <2>6. ~IsRemote
      BY DEF IsSimulator, IsRemote, TargetIs
    <2>7. Sends
      BY <1>2, <2>4, <2>5, <2>6, MoveMeans
    <2> QED BY <2>1, <2>2, <2>7 DEF Fits
  <1> QED BY <1>1, <1>2 DEF FlushSimulatorJoint

LEMMA RequestMeans ==
    ASSUME TypeOK, NEW joints \in Targets, NEW made \in Nat,
           RequestAbsoluteMove(joints, made),
           made = shown.device.epoch \/ "target" \in due
    PROVE  /\ NothingSent \/ Sends
           /\ dialog' = dialog \/ (/\ dialog' \in Dialogs
                                   /\ "target" \in due
                                      \/ dialog'.made = dialog'.epoch)
  <1>1. shown.device.epoch \in Nat
    BY DEF TypeOK, PageType, SeenDevices
  <1>2. CASE IsRemote
    BY <1>1, <1>2 DEF RequestAbsoluteMove, Dialogs
  <1>3. CASE ~IsRemote
    <2>1. dialog' = dialog /\ MayMove /\ SendMove(joints, made, FALSE)
      BY <1>3 DEF RequestAbsoluteMove
    <2> QED BY <1>3, <2>1, MoveMeans
  <1> QED BY <1>2, <1>3

-----------------------------------------------------------------------------
(* What the user does to a slider and to a draft.                          *)
LEMMA ChangeIsPageStep ==
    ASSUME Inv, NEW j \in Joints, NEW v \in Values, ChangeJointTarget(j, v)
    PROVE  PageStep
  <1>1. local \in Locals /\ shown.device.epoch \in Nat
    BY DEF Inv, TypeOK, PageType, SeenDevices, ChangeJointTarget
  <1>2. local' \in Locals
    <2>1. CASE local' = [local EXCEPT !.draft[j] = v,
                                      !.made = shown.device.epoch]
      BY <1>1, <2>1 DEF Locals, Targets, Positions
    <2>2. CASE local' = [local EXCEPT !.preview[j] = v,
                          !.pending = [joint |-> j, value |-> v,
                                       made |-> shown.device.epoch]]
      BY <1>1, <2>2 DEF Locals, Targets, Positions, Pendings
    <2> QED BY <2>1, <2>2 DEF ChangeJointTarget
  <1>3. /\ "target" \in due \/ Fits(local, shown.device.epoch)
        /\ UNCHANGED <<shown, moves, panel, dialog, due, up, down, device, events>>
        /\ edits' = edits + 1 /\ edits \in Nat /\ events \in Nat
    BY DEF Inv, TypeOK, DraftsFit, ChangeJointTarget
  <1>4. "target" \in due' \/ Fits(local', shown'.device.epoch)
    <2>1. CASE IsRemote
      <3>1. local' = [local EXCEPT !.draft[j] = v, !.made = shown.device.epoch]
        BY <2>1 DEF ChangeJointTarget
      <3>2. /\ local'.made = shown.device.epoch
            /\ local'.pending = local.pending
        BY <1>1, <3>1 DEF Locals
      <3> QED BY <1>3, <3>2 DEF Fits
    <2>2. CASE ~IsRemote
      <3>1. local' = [local EXCEPT !.preview[j] = v,
                       !.pending = [joint |-> j, value |-> v,
                                    made |-> shown.device.epoch]]
        BY <2>2 DEF ChangeJointTarget
      <3>2. /\ local'.pending.made = shown.device.epoch
            /\ local'.draft = local.draft /\ local'.made = local.made
        BY <1>1, <3>1 DEF Locals
      <3> QED BY <1>3, <3>2 DEF Fits
    <2> QED BY <2>1, <2>2
  <1>5. PageType'
    BY <1>2, <1>3 DEF Inv, TypeOK, PageType
  <1>6. DraftsFit'
    BY <1>3, <1>4 DEF Inv, DraftsFit
  <1> QED BY <1>3, <1>5, <1>6 DEF PageStep, NothingSent

LEMMA CommitIsPageStep ==
    ASSUME Inv, CommitSimulatorJoint
    PROVE  PageStep
  <1> DEFINE l == [local EXCEPT !.commit = TRUE, !.held = shown.control]
  <1>1. /\ local \in Locals /\ shown.control \in BOOLEAN /\ IsSimulator
        /\ "target" \in due \/ Fits(local, shown.device.epoch)
        /\ FlushSimulatorJoint(l)
        /\ UNCHANGED <<shown, panel, dialog, due, down, device, edits, events>>
    BY DEF Inv, TypeOK, PageType, DraftsFit, CommitSimulatorJoint
  <1>2. l \in Locals /\ l.draft = local.draft /\ l.made = local.made
        /\ l.pending = local.pending
    BY <1>1 DEF Locals
  <1>3. "target" \in due \/ Fits(l, shown.device.epoch)
    BY <1>1, <1>2 DEF Fits
  <1> HIDE DEF l
  <1>4. /\ local' \in Locals /\ (NothingSent \/ Sends)
        /\ "target" \in due \/ Fits(local', shown.device.epoch)
    BY <1>1, <1>2, <1>3, FlushMeans DEF Inv
  <1>5. moves' \in Int
    BY <1>4 DEF NothingSent, Sends, Inv, TypeOK, PageType
  <1> QED BY <1>1, <1>4, <1>5 DEF PageStep, Inv, TypeOK, PageType, DraftsFit

LEMMA ApplyIsPageStep ==
    ASSUME Inv, ApplyRemoteJointDraft
    PROVE  PageStep
  <1>1. /\ local \in Locals
        /\ "target" \in due \/ Fits(local, shown.device.epoch)
        /\ RequestAbsoluteMove(local.draft, local.made)
        /\ local' = [local EXCEPT !.draft = NoDraft]
        /\ UNCHANGED <<shown, panel, due, down, device, edits, events>>
    BY DEF Inv, TypeOK, PageType, DraftsFit, ApplyRemoteJointDraft
  <1>2. local.draft \in Targets /\ local.made \in Nat
    BY <1>1 DEF Locals
  <1>3. local.made = shown.device.epoch \/ "target" \in due
    BY <1>1 DEF Fits, RequestAbsoluteMove
  <1>4. /\ NothingSent \/ Sends
        /\ dialog' = dialog \/ (/\ dialog' \in Dialogs
                                /\ "target" \in due
                                   \/ dialog'.made = dialog'.epoch)
    BY <1>1, <1>2, <1>3, RequestMeans DEF Inv
  <1>5. local' \in Locals /\ local'.draft = NoDraft
        /\ local'.pending = local.pending
    BY <1>1, TypesOfParts DEF Locals
  <1>6. "target" \in due \/ Fits(local', shown.device.epoch)
    BY <1>1, <1>5 DEF Fits
  <1>7. moves' \in Int
    BY <1>4 DEF NothingSent, Sends, Inv, TypeOK, PageType
  <1>8. PageType'
    BY <1>1, <1>4, <1>5, <1>7 DEF Inv, TypeOK, PageType
  <1>9. DraftsFit'
    BY <1>1, <1>4, <1>6 DEF Inv, DraftsFit
  <1> QED BY <1>1, <1>4, <1>8, <1>9 DEF PageStep, Inv, TypeOK

LEMMA CancelIsPageStep ==
    ASSUME Inv, CancelRemoteJointDraft
    PROVE  PageStep
  <1>1. /\ local # None /\ local \in Locals
        /\ "target" \in due \/ Fits(local, shown.device.epoch)
        /\ local' = [local EXCEPT !.draft = NoDraft]
        /\ UNCHANGED <<shown, moves, panel, dialog, due, up, down, device,
                       edits, events>>
    BY DEF Inv, TypeOK, PageType, DraftsFit, CancelRemoteJointDraft
  <1>2. local' \in Locals /\ local'.draft = NoDraft
        /\ local'.pending = local.pending
    BY <1>1, TypesOfParts DEF Locals
  <1>3. "target" \in due \/ Fits(local', shown.device.epoch)
    BY <1>1, <1>2 DEF Fits
  <1>4. PageType' /\ DraftsFit'
    BY <1>1, <1>2, <1>3 DEF Inv, TypeOK, PageType, DraftsFit
  <1> QED BY <1>1, <1>4 DEF PageStep, NothingSent, Inv, TypeOK

LEMMA PlayIsPageStep ==
    ASSUME Inv, NEW action \in {"play", "rest"}, Play(action)
    PROVE  PageStep
  <1>1. /\ MayMove /\ SendCommand(action, AtHome, shown.device.epoch, FALSE)
        /\ UNCHANGED <<shown, local, panel, dialog, due, down, device, edits,
                       events>>
    BY DEF Play
  <1>2. /\ AtHome \in Targets /\ shown.device.epoch \in Nat
        /\ action \in Moves /\ action # "absolute_move"
    BY TypesOfParts DEF Inv, TypeOK, PageType, SeenDevices, Moves
  <1>3. Sends
    BY <1>1, <1>2, SendMeans DEF Inv
  <1>4. moves' \in Int
    BY <1>3 DEF Sends, Inv, TypeOK, PageType
  <1> QED BY <1>1, <1>3, <1>4 DEF PageStep, Inv, TypeOK, PageType, DraftsFit

LEMMA DialogIsPageStep ==
    ASSUME Inv, ConfirmRemoteMove \/ CancelRemoteMove
    PROVE  PageStep
  <1>1. /\ dialog \in Dialogs /\ dialog' = None
        /\ "target" \in due \/ dialog.made = dialog.epoch
        /\ UNCHANGED <<shown, local, panel, due, down, device, edits, events>>
    BY DEF Inv, TypeOK, PageType, DraftsFit, ConfirmRemoteMove, CancelRemoteMove
  <1>2. NothingSent \/ Sends
    <2>1. CASE /\ dialog.epoch = shown.device.epoch /\ MayMove
               /\ SendMove(dialog.joints, dialog.made, TRUE)
      <3>1. dialog.joints \in Targets /\ dialog.made \in Nat
        BY <1>1 DEF Dialogs
      <3> QED BY <1>1, <2>1, <3>1, MoveMeans DEF Inv
    <2>2. CASE NothingSent
      BY <2>2
    <2> QED BY <2>1, <2>2 DEF ConfirmRemoteMove, CancelRemoteMove, NothingSent
  <1>3. moves' \in Int
    BY <1>2 DEF NothingSent, Sends, Inv, TypeOK, PageType
  <1> QED BY <1>1, <1>2, <1>3 DEF PageStep, Inv, TypeOK, PageType, DraftsFit

LEMMA PanelIsPageStep ==
    ASSUME Inv,
           \/ \E j \in Joints, v \in Values : ChangePanelDraft(j, v) \/ Turn(j, v)
           \/ ApplyPanelDraft
    PROVE  PageStep
  <1>1. /\ panel \in Panels /\ panel # None /\ panel.made = shown.device.epoch
    BY DEF Inv, TypeOK, PageType, DraftsFit, ChangePanelDraft, ApplyPanelDraft,
           Turn
  <1>2. CASE \E j \in Joints, v \in Values : ChangePanelDraft(j, v)
    <2>1. PICK j \in Joints, v \in Values : ChangePanelDraft(j, v)
      BY <1>2
    <2>2. panel' \in Panels /\ panel'.made = panel.made
      BY <1>1, <2>1 DEF ChangePanelDraft, Panels, Positions
    <2>3. /\ UNCHANGED <<shown, moves, local, dialog, due, up, down, device, events>>
          /\ edits' = edits + 1
      BY <2>1 DEF ChangePanelDraft
    <2> QED BY <1>1, <2>2, <2>3 DEF PageStep, NothingSent, Inv, TypeOK, PageType,
            DraftsFit
  <1>3. CASE ApplyPanelDraft \/ \E j \in Joints, v \in Values : Turn(j, v)
    <2>1. /\ UNCHANGED <<shown, local, panel, due, down, device, edits, events>>
          /\ \E joints \in Targets, made \in Nat :
               /\ RequestAbsoluteMove(joints, made)
               /\ made = shown.device.epoch
      <3>1. CASE ApplyPanelDraft
        <4>1. panel.draft \in Targets /\ panel.made \in Nat
          BY <1>1, TypesOfParts DEF Panels
        <4> QED BY <1>1, <3>1, <4>1 DEF ApplyPanelDraft
      <3>2. CASE \E j \in Joints, v \in Values : Turn(j, v)
        <4>1. PICK j \in Joints, v \in Values : Turn(j, v)
          BY <3>2
        <4>2. Single(j, v) \in Targets /\ shown.device.epoch \in Nat
          BY TypesOfParts DEF Inv, TypeOK, PageType, SeenDevices
        <4> QED BY <4>1, <4>2 DEF Turn
      <3> QED BY <1>3, <3>1, <3>2
    <2>2. PICK joints \in Targets, made \in Nat :
            RequestAbsoluteMove(joints, made) /\ made = shown.device.epoch
      BY <2>1
    <2>3. /\ NothingSent \/ Sends
          /\ dialog' = dialog \/ (/\ dialog' \in Dialogs
                                  /\ "target" \in due
                                     \/ dialog'.made = dialog'.epoch)
      BY <2>2, RequestMeans DEF Inv
    <2>4. moves' \in Int
      BY <2>3 DEF NothingSent, Sends, Inv, TypeOK, PageType
    <2>5. PageType'
      BY <2>1, <2>3, <2>4 DEF Inv, TypeOK, PageType
    <2>6. DraftsFit'
      BY <2>1, <2>3 DEF Inv, DraftsFit
    <2> QED BY <2>1, <2>3, <2>5, <2>6 DEF PageStep, Inv, TypeOK
  <1> QED BY <1>2, <1>3

-----------------------------------------------------------------------------
(* Workspaces, the list of targets, and the effects of a render.           *)
LEMMA PanelOfShown ==
    ASSUME TypeOK
    PROVE  /\ PanelOf(shown.device) \in Panels
           /\ PanelOf(shown.device).made = shown.device.epoch
  BY DEF TypeOK, PageType, SeenDevices, PanelOf, Panels

LEMMA FreshFits == \A epoch : Fits(Fresh, epoch)
  BY DEF Fits, Fresh

LEMMA WorkspaceIsPageStep ==
    ASSUME Inv, ToggleJointEditor \/ SwitchWorkspace \/ TargetsLoaded
    PROVE  PageStep
  <1>1. CASE ToggleJointEditor
    <2>1. /\ local \in Locals /\ local' = [local EXCEPT !.open = TRUE]
          /\ UNCHANGED <<shown, moves, panel, dialog, due, up, down, device,
                         edits, events>>
      BY <1>1 DEF Inv, TypeOK, PageType, ToggleJointEditor
    <2>2. /\ local' \in Locals /\ local'.draft = local.draft
          /\ local'.made = local.made /\ local'.pending = local.pending
      BY <2>1 DEF Locals
    <2>3. local # None
      BY <1>1 DEF ToggleJointEditor
    <2>4. DraftsFit'
      BY <2>1, <2>2, <2>3 DEF Inv, DraftsFit, Fits
    <2> QED BY <2>1, <2>2, <2>4 DEF PageStep, NothingSent, Inv, TypeOK, PageType
  <1>2. CASE SwitchWorkspace
    BY <1>2, PanelOfShown, FreshFits, TypesOfParts
       DEF SwitchWorkspace, PageStep, NothingSent, Inv, TypeOK, PageType,
           DraftsFit
  <1>3. CASE TargetsLoaded
    <2>0. PICK listed \in Lists : shown' = [shown EXCEPT !.listed = listed]
      BY <1>3 DEF TargetsLoaded, Lists
    <2>1. /\ shown' = [shown EXCEPT !.listed = listed] /\ due = {}
          /\ due' = {"list"} /\ events' \in Nat
          /\ UNCHANGED <<moves, local, panel, dialog, up, down, device, edits>>
      BY <1>3, <2>0 DEF TargetsLoaded, Event, Inv, TypeOK
    <2>2. /\ shown'.device = shown.device
          /\ shown' \in [device : SeenDevices, control : BOOLEAN,
                         listed : Lists]
      BY <2>1 DEF Inv, TypeOK, PageType
    <2> QED BY <2>1, <2>2 DEF PageStep, NothingSent, Inv, TypeOK, PageType,
            DraftsFit
  <1> QED BY <1>1, <1>2, <1>3

(* Effects without a new target, and with one.                             *)
LEMMA FollowMeans ==
    ASSUME TypeOK, NEW l \in Locals, FollowDevice(l),
           Fits(l, shown.device.epoch)
    PROVE  /\ local' \in Locals /\ Fits(local', shown.device.epoch)
           /\ NothingSent \/ Sends
  <1>1. CASE local' = DropSimulatorJoint(l) /\ NothingSent
    <2>1. /\ local' \in Locals /\ local'.draft = l.draft /\ local'.made = l.made
          /\ local'.pending = NoPending
      BY <1>1, TypesOfParts DEF DropSimulatorJoint, Locals
    <2> QED BY <1>1, <2>1 DEF Fits
  <1>2. CASE local' = l /\ NothingSent
    BY <1>2
  <1>3. CASE IsSimulator /\ FlushSimulatorJoint([l EXCEPT !.inFlight = FALSE])
    <2> DEFINE k == [l EXCEPT !.inFlight = FALSE]
    <2>1. k \in Locals /\ k.draft = l.draft /\ k.made = l.made
          /\ k.pending = l.pending
      BY DEF Locals
    <2>2. Fits(k, shown.device.epoch)
      BY <2>1 DEF Fits
    <2> HIDE DEF k
    <2> QED BY <1>3, <2>1, <2>2, FlushMeans DEF k
  <1>4. CASE /\ local' = [l EXCEPT !.inFlight = FALSE,
                                   !.preview = PreviewAfter(l)]
             /\ NothingSent
    <2>1. PreviewAfter(l) \in Targets
      BY TypesOfParts DEF PreviewAfter, Locals
    <2>2. /\ local' \in Locals /\ local'.draft = l.draft
          /\ local'.made = l.made /\ local'.pending = l.pending
      BY <1>4, <2>1 DEF Locals
    <2> QED BY <1>4, <2>2 DEF Fits
  <1> QED BY <1>1, <1>2, <1>3, <1>4 DEF FollowDevice

LEMMA EffectsArePageStep ==
    ASSUME Inv, RunEffects
    PROVE  PageStep
  <1>1. /\ due' = {}
        /\ panel' = IF panel = None THEN None
                    ELSE [panel EXCEPT !.draft = shown.device.pos]
        /\ dialog' = IF "target" \in due THEN None ELSE dialog
        /\ UNCHANGED <<shown, down, device, edits, events>>
    BY DEF RunEffects
  <1>2. /\ local' # None => local' \in Locals
                              /\ Fits(local', shown.device.epoch)
        /\ NothingSent \/ Sends
    <2>1. CASE local = None
      BY <2>1 DEF RunEffects
    <2>2. CASE local # None
      <3> DEFINE l == IF "target" \in due THEN ResetForTarget(local) ELSE local
      <3>1. l \in Locals /\ Fits(l, shown.device.epoch)
        BY <2>2, FreshFits, TypesOfParts
           DEF Inv, TypeOK, PageType, DraftsFit, ResetForTarget
      <3>2. FollowDevice(l)
        BY <2>2 DEF RunEffects
      <3> HIDE DEF l
      <3> QED BY <3>1, <3>2, FollowMeans DEF Inv
    <2> QED BY <2>1, <2>2
  <1>3. panel' # None => panel' \in Panels /\ panel'.made = shown.device.epoch
    <2>1. shown.device.pos \in [Joints -> Positions]
      BY DEF Inv, TypeOK, PageType, SeenDevices
    <2> QED BY <1>1, <2>1 DEF Inv, TypeOK, PageType, DraftsFit, Panels
  <1>4. dialog' # None => dialog' \in Dialogs /\ dialog'.made = dialog'.epoch
    BY <1>1 DEF Inv, TypeOK, PageType, DraftsFit
  <1>5. moves' \in Int
    BY <1>2 DEF NothingSent, Sends, Inv, TypeOK, PageType
  <1>6. PageType'
    BY <1>1, <1>2, <1>3, <1>4, <1>5 DEF Inv, TypeOK, PageType
  <1>7. DraftsFit'
    BY <1>1, <1>2, <1>3, <1>4 DEF DraftsFit
  <1> QED BY <1>1, <1>2, <1>6, <1>7 DEF PageStep, Inv, TypeOK

(* A step of the page keeps the invariant.                                 *)
LEMMA PageStepKeeps ==
    ASSUME Inv, PageStep
    PROVE  Inv'
  <1>1. /\ PageType' /\ DraftsFit' /\ UNCHANGED <<down, device>>
        /\ edits' \in Nat /\ events' \in Nat
    BY DEF PageStep
  <1>2. CASE NothingSent
    <2>1. UNCHANGED <<up, moves>>
      BY <1>2 DEF NothingSent
    <2> QED BY <1>1, <2>1 DEF Inv, TypeOK, OneMove, SentAsMeant
  <1>3. CASE Sends
    <2>1. PICK c \in Commands : AsMeant(c) /\ up' = Append(up, c)
      BY <1>3 DEF Sends
    <2>2. moves' = moves + 1 /\ ~(moves > 0) /\ up \in Seq(Commands)
          /\ moves \in Int
      BY <1>3 DEF Sends, MayMove, MotionIsBusy, Inv, TypeOK, PageType
    <2>3. /\ moves = 0 /\ up = <<>>
          /\ NoPage(device.jobs) /\ NoEnd(down)
      BY <2>2 DEF Inv, OneMove, InOnePlace
    <2>4. up' \in Seq(Commands) /\ Len(up') = 1
      BY <2>1, <2>2, <2>3
    <2>5. OneMove'
      BY <1>1, <2>2, <2>3, <2>4 DEF OneMove, InOnePlace
    <2>6. SentAsMeant'
      <3>1. up' = <<c>>
        BY <2>1, <2>3
      <3> QED BY <2>1, <3>1 DEF SentAsMeant, AsMeant
    <2> QED BY <1>1, <2>4, <2>5, <2>6 DEF Inv, TypeOK
  <1> QED BY <1>2, <1>3, <1>1 DEF PageStep

-----------------------------------------------------------------------------
(* Messages are read.                                                      *)
LEMMA InvReceive ==
    ASSUME Inv, Receive
    PROVE  Inv'
  <1>1. PICK n \in 1 .. Len(down) :
          LET read == SubSeq(down, 1, n)
              moved == Reduced(read).device.epoch # shown.device.epoch
          IN /\ down' = SubSeq(down, n + 1, Len(down))
             /\ shown' = Reduced(read) /\ moves' = moves - Ends(read)
             /\ due' = (IF moved THEN {"target"} ELSE {}) \union
                       (IF LastOf(read, "state") # 0 THEN {"state"} ELSE {})
             /\ panel' = IF panel # None /\ moved
                           THEN PanelOf(Reduced(read).device) ELSE panel
    BY DEF Receive
  <1> DEFINE read == SubSeq(down, 1, n)
             moved == Reduced(read).device.epoch # shown.device.epoch
  <1>2. /\ due = {} /\ down \in Seq(Messages)
        /\ UNCHANGED <<local, dialog, up, device, edits, events>>
    BY DEF Receive, Inv, TypeOK
  <1>3. /\ read \in Seq(Messages) /\ down' \in Seq(Messages)
        /\ NoEnd(down) => NoEnd(read) /\ NoEnd(down')
        /\ OneEnd(down) => \/ OneEnd(read) /\ NoEnd(down')
                           \/ NoEnd(read) /\ OneEnd(down')
    <2>1. down' = SubSeq(down, n + 1, Len(down))
      BY <1>1
    <2> DEFINE rest == SubSeq(down, n + 1, Len(down))
    <2>2. /\ read \in Seq(Messages) /\ rest \in Seq(Messages)
          /\ NoEnd(down) => NoEnd(read) /\ NoEnd(rest)
          /\ OneEnd(down) => \/ OneEnd(read) /\ NoEnd(rest)
                             \/ NoEnd(read) /\ OneEnd(rest)
      BY <1>2, BatchRead
    <2> HIDE DEF read, rest
    <2>3. down' = rest
      BY <2>1 DEF rest
    <2> QED BY <2>2, <2>3
  <1>4. /\ down' = SubSeq(down, n + 1, Len(down))
        /\ shown' = Reduced(read) /\ moves' = moves - Ends(read)
        /\ due' = (IF moved THEN {"target"} ELSE {}) \union
                  (IF LastOf(read, "state") # 0 THEN {"state"} ELSE {})
        /\ panel' = IF panel # None /\ moved
                      THEN PanelOf(Reduced(read).device) ELSE panel
    BY <1>1
  <1> HIDE DEF read
  <1>5. shown' \in [device : SeenDevices, control : BOOLEAN, listed : Lists]
    BY <1>3, <1>4, ReducedType DEF Inv
  <1>6. panel' # None => panel' \in Panels /\ panel'.made = shown'.device.epoch
    <2>1. CASE panel # None /\ moved
      <3>1. panel' = PanelOf(shown'.device)
        BY <1>4, <2>1
      <3> QED BY <1>5, <3>1 DEF PanelOf, Panels, SeenDevices
    <2>2. CASE ~(panel # None /\ moved)
      BY <1>4, <2>2 DEF Inv, TypeOK, PageType, DraftsFit
    <2> QED BY <2>1, <2>2
  <1>7. Ends(read) \in Nat
    BY <1>3, EndsOfBatch
  <1>8. PageType'
    BY <1>2, <1>4, <1>5, <1>6, <1>7 DEF Inv, TypeOK, PageType
  <1>9. DraftsFit'
    <2>1. CASE moved
      BY <1>2, <1>4, <1>6, <2>1 DEF Inv, DraftsFit
    <2>2. CASE ~moved
      BY <1>2, <1>4, <1>6, <2>2 DEF Inv, DraftsFit
    <2> QED BY <2>1, <2>2
  <1>10. OneMove'
    <2>1. CASE NoEnd(down)
      <3>1. moves' = moves /\ NoEnd(down')
        BY <1>3, <1>4, <2>1, EndsOfBatch DEF Inv, TypeOK, PageType
      <3>2. ~OneEnd(down)
        BY <2>1 DEF NoEnd, OneEnd
      <3> QED BY <1>2, <3>1, <3>2 DEF Inv, OneMove, InOnePlace
    <2>2. CASE ~NoEnd(down)
      <3>1. moves = 1 /\ up = <<>> /\ NoPage(device.jobs) /\ OneEnd(down)
        BY <2>2 DEF Inv, OneMove, InOnePlace
      <3>2. CASE OneEnd(read) /\ NoEnd(down')
        BY <1>2, <1>3, <1>4, <3>1, <3>2, EndsOfBatch DEF OneMove, InOnePlace
      <3>3. CASE NoEnd(read) /\ OneEnd(down')
        BY <1>2, <1>3, <1>4, <3>1, <3>3, EndsOfBatch DEF OneMove, InOnePlace
      <3> QED BY <1>3, <3>1, <3>2, <3>3
    <2> QED BY <2>1, <2>2
  <1>11. SentAsMeant'
    BY <1>2 DEF Inv, SentAsMeant
  <1> QED BY <1>2, <1>3, <1>8, <1>9, <1>10, <1>11 DEF Inv, TypeOK

-----------------------------------------------------------------------------
(***************************************************************************)
(* The gateway, the device and the others: the page's own state stays.     *)
(***************************************************************************)
Elsewhere ==
    /\ UNCHANGED pageVars
    /\ edits' \in Nat /\ events' \in Nat
    /\ device' \in Devices
    /\ device'.moving => device'.jobs # <<>>
    /\ down' \in Seq(Messages)

LEMMA ElsewhereKeeps ==
    ASSUME Inv, Elsewhere, up' = up, OneMove'
    PROVE  Inv'
  <1>1. /\ UNCHANGED <<shown, moves, local, panel, dialog, due, up>>
    BY DEF Elsewhere, pageVars
  <1>2. TypeOK'
    <2>1. PageType'
      BY <1>1 DEF Inv, TypeOK, PageType
    <2> QED BY <1>1, <2>1 DEF Elsewhere, Inv, TypeOK
  <1>3. DraftsFit' /\ SentAsMeant'
    BY <1>1 DEF Inv, DraftsFit, SentAsMeant
  <1> QED BY <1>2, <1>3 DEF Inv

LEMMA StateIsMessage ==
    ASSUME NEW d \in Devices, d.moving => d.jobs # <<>>
    PROVE  StateOf(d) \in Messages /\ StateOf(d).type # "ended"
  BY SeenType DEF StateOf, Messages, StateMessages

LEMMA EndedIsMessage == Ended \in Messages /\ Ended.type = "ended"
  BY DEF Ended, Messages, EndedMessages

LEMMA ControlIsMessage ==
    \A owner \in BOOLEAN :
        /\ [type |-> "control", owner |-> owner] \in Messages
        /\ [type |-> "control", owner |-> owner].type # "ended"
  BY DEF Messages, ControlMessages

(* A state of a device with the same motions of the page, or a message     *)
(* about control.                                                          *)
LEMMA ToldKeeps ==
    ASSUME Inv, UNCHANGED <<pageVars, up>>, edits' \in Nat, events' \in Nat,
           NEW m \in Messages, m.type # "ended", down' = Append(down, m),
           device' \in Devices, device'.moving => device'.jobs # <<>>,
           NoPage(device.jobs) => NoPage(device'.jobs),
           OnePage(device.jobs) => OnePage(device'.jobs)
    PROVE  Inv'
  <1>1. down \in Seq(Messages)
    BY DEF Inv, TypeOK
  <1>2. /\ down' \in Seq(Messages)
        /\ NoEnd(down) => NoEnd(down')
        /\ OneEnd(down) => OneEnd(down')
    BY <1>1, MessageSent
  <1>3. OneMove'
    BY <1>2 DEF Inv, OneMove, InOnePlace, pageVars
  <1> QED BY <1>2, <1>3, ElsewhereKeeps DEF Elsewhere

LEMMA DeviceOf ==
    ASSUME Inv
    PROVE  /\ device \in Devices /\ device.jobs \in Seq(Jobs)
           /\ device.moving => device.jobs # <<>>
           /\ edits \in Nat /\ events \in Nat /\ device.epoch \in Nat
  BY DEF Inv, TypeOK, Devices

LEMMA InvControl ==
    ASSUME Inv, AcquireControl \/ TakeOver
    PROVE  Inv'
  <1>1. PICK owner \in BOOLEAN :
          /\ device' = [device EXCEPT !.owner = owner]
          /\ down' = Append(down, [type |-> "control", owner |-> owner])
    BY DEF AcquireControl, TakeOver
  <1>2. /\ UNCHANGED <<pageVars, up>> /\ edits' \in Nat /\ events' \in Nat
    BY DeviceOf DEF AcquireControl, TakeOver, Event
  <1>3. /\ device' \in Devices /\ device'.jobs = device.jobs
        /\ device'.moving = device.moving
    BY <1>1, DeviceOf DEF Devices
  <1> DEFINE m == [type |-> "control", owner |-> owner]
  <1>4. m \in Messages /\ m.type # "ended"
    BY ControlIsMessage
  <1> HIDE DEF m
  <1>5. down' = Append(down, m)
    BY <1>1 DEF m
  <1> QED BY <1>2, <1>3, <1>4, <1>5, DeviceOf, ToldKeeps

(* A motion of the page is over, or not, and a message says so.            *)
LEMMA EndKeeps ==
    ASSUME Inv, UNCHANGED <<pageVars, up>>, edits' \in Nat, events' \in Nat,
           NEW m \in Messages, m.type # "ended", NEW ended \in BOOLEAN,
           down' = down \o <<m>> \o EndedIf(ended),
           device' \in Devices, device'.moving => device'.jobs # <<>>,
           ended => OnePage(device.jobs) /\ NoPage(device'.jobs),
           ~ended => /\ NoPage(device.jobs) => NoPage(device'.jobs)
                     /\ OnePage(device.jobs) => OnePage(device'.jobs)
    PROVE  Inv'
  <1> DEFINE t == Append(down, m)
  <1>1. down \in Seq(Messages) /\ down \o <<m>> = t /\ t \in Seq(Messages)
    BY DEF Inv, TypeOK
  <1>2. CASE ~ended
    <2>1. down' = t
      <3>1. down' = t \o <<>>
        BY <1>1, <1>2 DEF EndedIf
      <3> HIDE DEF t
      <3> QED BY <1>1, <3>1
    <2> QED BY <1>2, <2>1, ToldKeeps
  <1>3. CASE ended
    <2>1. down' = Append(t, Ended)
      <3>1. down' = t \o <<Ended>>
        BY <1>1, <1>3 DEF EndedIf
      <3> HIDE DEF t
      <3> QED BY <1>1, <3>1, EndedIsMessage
    <2>2. ~NoPage(device.jobs)
      BY <1>3 DEF OnePage, NoPage
    <2>3. moves = 1 /\ up = <<>> /\ NoEnd(down)
      BY <2>2 DEF Inv, OneMove, InOnePlace
    <2>4. t \in Seq(Messages) /\ NoEnd(t)
      BY <1>1, <2>3, MessageSent
    <2> HIDE DEF t
    <2>5. down' \in Seq(Messages) /\ OneEnd(down')
      <3>1. Append(t, Ended) \in Seq(Messages) /\ OneEnd(Append(t, Ended))
        BY <2>4, MessageSent, EndedIsMessage
      <3> QED BY <2>1, <3>1
    <2>6. OneMove'
      BY <1>3, <2>3, <2>5 DEF OneMove, InOnePlace, pageVars
    <2>7. Elsewhere
      BY <2>5 DEF Elsewhere
    <2> QED BY <2>6, <2>7, ElsewhereKeeps
  <1> QED BY <1>2, <1>3

(* The queue with another motion: a rest leaves only the one that runs.    *)
LEMMA RunningIs ==
    ASSUME Inv
    PROVE  /\ Running \in Seq(Jobs)
           /\ NoPage(device.jobs) => NoPage(Running)
           /\ OnePage(device.jobs) /\ PageWaits => NoPage(Running)
           /\ OnePage(device.jobs) /\ ~PageWaits => OnePage(Running)
  <1>1. CASE ~device.moving
    <2>1. Running = <<>>
      BY <1>1 DEF Running
    <2>2. OnePage(device.jobs) => PageWaits
      BY <1>1 DEF OnePage, PageWaits
    <2> QED BY <2>1, <2>2 DEF NoPage
  <1>2. CASE device.moving
    <2>1. /\ Running = <<Head(device.jobs)>> /\ device.jobs \in Seq(Jobs)
          /\ device.jobs # <<>>
      BY <1>2, DeviceOf DEF Running
    <2>2. /\ Running \in Seq(Jobs) /\ DOMAIN Running = {1}
          /\ Running[1] = device.jobs[1] /\ 1 \in DOMAIN device.jobs
      BY <2>1
    <2>3. NoPage(device.jobs) => NoPage(Running)
      BY <2>2 DEF NoPage
    <2>4. ASSUME OnePage(device.jobs)
          PROVE  /\ PageWaits => NoPage(Running)
                 /\ ~PageWaits => OnePage(Running)
      <3>1. PICK k \in DOMAIN device.jobs : \A i \in DOMAIN device.jobs :
              (device.jobs[i].by = "page") <=> i = k
        BY <2>4 DEF OnePage
      <3>2. PageWaits <=> k # 1
        BY <1>2, <3>1 DEF PageWaits
      <3> QED BY <2>2, <3>1, <3>2 DEF NoPage, OnePage
    <2> QED BY <2>2, <2>3, <2>4
  <1> QED BY <1>1, <1>2, DeviceOf DEF Devices

LEMMA WithIs ==
    ASSUME Inv, NEW j \in Jobs
    PROVE  LET ended == j.action = "rest" /\ PageWaits IN
           /\ With(j) \in Devices /\ With(j).jobs # <<>>
           /\ NoPage(device.jobs) =>
                /\ j.by # "page" => NoPage(With(j).jobs)
                /\ j.by = "page" => OnePage(With(j).jobs)
           /\ OnePage(device.jobs) /\ j.by # "page" =>
                IF ended THEN NoPage(With(j).jobs) ELSE OnePage(With(j).jobs)
  <1> DEFINE kept == IF j.action = "rest" THEN Running ELSE device.jobs
  <1>1. /\ kept \in Seq(Jobs)
        /\ NoPage(device.jobs) => NoPage(kept)
        /\ OnePage(device.jobs) =>
             IF j.action = "rest" /\ PageWaits THEN NoPage(kept)
             ELSE OnePage(kept)
    BY RunningIs, DeviceOf
  <1> HIDE DEF kept
  <1>2. Append(kept, j) \in Seq(Jobs) /\ Append(kept, j) # <<>>
    <2>1. kept \in Seq(Jobs)
      BY <1>1
    <2>2. Append(kept, j) \in Seq(Jobs) /\ Len(Append(kept, j)) = Len(kept) + 1
      BY <2>1
    <2>3. Len(kept) \in Nat
      BY <2>1
    <2>4. Len(Append(kept, j)) # 0
      BY <2>2, <2>3
    <2>5. \A s : s = <<>> => Len(s) = 0
      OBVIOUS
    <2> QED BY <2>2, <2>4, <2>5, Zenon
  <1>3. With(j) \in Devices /\ With(j).jobs = Append(kept, j)
    BY <1>2, DeviceOf DEF With, Devices, kept
  <1> QED BY <1>1, <1>2, <1>3, JobQueued

LEMMA InvHandleCommand ==
    ASSUME Inv, HandleCommand
    PROVE  Inv'
  <1> DEFINE c == Head(up)
  <1>1. /\ up # <<>> /\ up' = Tail(up) /\ up \in Seq(Commands)
        /\ down \in Seq(Messages) /\ device \in Devices
        /\ UNCHANGED <<pageVars, edits>> /\ edits \in Nat /\ events \in Nat
    BY DEF HandleCommand, Inv, TypeOK
  <1>2. /\ moves = 1 /\ Len(up) = 1 /\ NoPage(device.jobs) /\ NoEnd(down)
    BY <1>1 DEF Inv, OneMove, InOnePlace
  <1>3. up' = <<>> /\ c \in Commands
    BY <1>1, <1>2
  <1>4. /\ Job(c, "page") \in Jobs /\ Job(c, "page").by = "page"
        /\ Job(c, "unheard") \in Jobs /\ Job(c, "unheard").by # "page"
    BY <1>3 DEF Job, Jobs, Commands
  <1>5. SUFFICES ASSUME events' \in Nat, down' \in Seq(Messages),
                        device' \in Devices,
                        device'.moving => device'.jobs # <<>>,
                        \/ NoPage(device'.jobs) /\ OneEnd(down')
                        \/ OnePage(device'.jobs) /\ NoEnd(down')
                 PROVE  Inv'
    <2> SUFFICES /\ events' \in Nat /\ down' \in Seq(Messages)
                 /\ device' \in Devices
                 /\ device'.moving => device'.jobs # <<>>
                 /\ \/ NoPage(device'.jobs) /\ OneEnd(down')
                    \/ OnePage(device'.jobs) /\ NoEnd(down')
      OBVIOUS
    <2> HIDE DEF c
    <2>1. CASE Queue(Job(c, "page")) /\ events' = events
      <3> DEFINE j == Job(c, "page")
                 m == StateOf(With(j))
      <3>1. /\ With(j) \in Devices /\ With(j).jobs # <<>>
            /\ OnePage(With(j).jobs)
        BY <1>2, <1>4, WithIs
      <3>2. ~PageWaits
        BY <1>2 DEF NoPage, PageWaits
      <3>3. /\ device' = With(j)
            /\ down' = down \o <<m>> \o <<>>
        BY <2>1, <3>2 DEF Queue, EndedIf
      <3>4. m \in Messages /\ m.type # "ended"
        BY <3>1, StateIsMessage
      <3> HIDE DEF m
      <3>5. down' = Append(down, m)
        BY <1>1, <3>3, <3>4
      <3>6. down' \in Seq(Messages) /\ NoEnd(down')
        BY <1>1, <1>2, <3>4, <3>5, MessageSent
      <3> QED BY <1>1, <2>1, <3>1, <3>3, <3>6
    <2>2. CASE QueueUnheard(Job(c, "unheard"))
      <3> DEFINE j == Job(c, "unheard")
                 m == StateOf(With(j))
      <3>1. /\ With(j) \in Devices /\ With(j).jobs # <<>>
            /\ NoPage(With(j).jobs)
        BY <1>2, <1>4, WithIs
      <3>2. m \in Messages /\ m.type # "ended"
        BY <3>1, StateIsMessage
      <3>3. /\ device' = With(j) /\ events' = events + 1
            /\ \E told \in {<<>>, <<m>>} : down' = down \o told \o <<Ended>>
        BY <2>2 DEF QueueUnheard, Event
      <3> HIDE DEF m
      <3>4. PICK told \in {<<>>, <<m>>} : down' = down \o told \o <<Ended>>
        BY <3>3
      <3> DEFINE t == down \o told
      <3>5. t = down \/ t = Append(down, m)
        <4>1. down \in Seq(Messages)
          BY <1>1
        <4>2. down \o <<>> = down /\ down \o <<m>> = Append(down, m)
          BY <3>2, <4>1
        <4> QED BY <3>4, <4>2
      <3>6. t \in Seq(Messages) /\ NoEnd(t)
        <4>1. CASE t = down
          BY <1>1, <1>2, <4>1
        <4>2. CASE t = Append(down, m)
          <5>1. Append(down, m) \in Seq(Messages) /\ NoEnd(Append(down, m))
            BY <1>1, <1>2, <3>2, MessageSent
          <5> HIDE DEF t
          <5> QED BY <4>2, <5>1
        <4> HIDE DEF t
        <4> QED BY <3>5, <4>1, <4>2
      <3> HIDE DEF t
      <3>7. down' = Append(t, Ended)
        BY <3>4, <3>6, EndedIsMessage DEF t
      <3>8. down' \in Seq(Messages) /\ OneEnd(down')
        BY <3>6, <3>7, MessageSent, EndedIsMessage
      <3> QED BY <1>1, <3>1, <3>3, <3>8
    <2>3. CASE device' = device /\ down' = Append(down, Ended) /\ events' = events
      <3>1. OneEnd(down') /\ down' \in Seq(Messages)
        BY <1>1, <1>2, <2>3, MessageSent, EndedIsMessage
      <3> QED BY <1>1, <1>2, <2>3, <3>1, DeviceOf
    <2> QED BY <2>1, <2>2, <2>3 DEF HandleCommand, c
  <1>6. OneMove'
    BY <1>1, <1>2, <1>3, <1>5 DEF OneMove, InOnePlace, pageVars
  <1>7. up' \in Seq(Commands) /\ SentAsMeant'
    BY <1>3 DEF SentAsMeant
  <1> QED BY <1>1, <1>5, <1>6, <1>7
          DEF Inv, TypeOK, PageType, DraftsFit, pageVars

(* A new state of the device is published.                                 *)
LEMMA InvPublish ==
    ASSUME Inv, UNCHANGED <<pageVars, up>>, edits' \in Nat, events' \in Nat,
           NEW d \in Devices, d.moving => d.jobs # <<>>,
           device' = d, down' = Append(down, StateOf(d)),
           NoPage(device.jobs) => NoPage(d.jobs),
           OnePage(device.jobs) => OnePage(d.jobs)
    PROVE  Inv'
  BY StateIsMessage, ToldKeeps

LEMMA InvOthers ==
    ASSUME Inv, StartMotion \/ Others
    PROVE  Inv'
  <1>1. CASE StartMotion
    <2> DEFINE d == [device EXCEPT !.moving = TRUE]
    <2>1. d \in Devices /\ d.jobs = device.jobs
      BY DeviceOf DEF Devices
    <2>2. /\ UNCHANGED <<pageVars, up, edits, events>> /\ device.jobs # <<>>
          /\ device' = d /\ down' = Append(down, StateOf(d))
      BY <1>1 DEF StartMotion
    <2> HIDE DEF d
    <2> QED BY <2>1, <2>2, DeviceOf, InvPublish
  <1>2. ASSUME NEW action \in Moves, OthersMove(action)
        PROVE  Inv'
    <2> DEFINE j == [by |-> "other", action |-> action, joints |-> AtHome]
               m == StateOf(With(j))
               ended == j.action = "rest" /\ PageWaits
    <2>1. j \in Jobs /\ j.by # "page"
      BY TypesOfParts DEF Jobs
    <2>2. /\ UNCHANGED <<pageVars, up, edits>> /\ events' = events + 1
          /\ device' = With(j) /\ down' = down \o <<m>> \o EndedIf(ended)
      BY <1>2 DEF OthersMove, Event, Queue
    <2> HIDE DEF j
    <2>3. /\ With(j) \in Devices /\ With(j).jobs # <<>>
          /\ NoPage(device.jobs) => NoPage(With(j).jobs)
          /\ OnePage(device.jobs) =>
               IF ended THEN NoPage(With(j).jobs) ELSE OnePage(With(j).jobs)
      BY <2>1, WithIs
    <2>4. m \in Messages /\ m.type # "ended" /\ ended \in BOOLEAN
      BY <2>3, StateIsMessage
    <2>5. ended => OnePage(device.jobs)
      <3>1. PageWaits => ~NoPage(device.jobs)
        BY DEF PageWaits, NoPage
      <3> QED BY <3>1 DEF Inv, OneMove, InOnePlace
    <2> HIDE DEF m, ended
    <2>6. edits' \in Nat /\ events' \in Nat
      BY <2>2, DeviceOf
    <2> QED BY <2>2, <2>3, <2>4, <2>5, <2>6, EndKeeps
  <1>3. CASE Change
    <2>1. /\ UNCHANGED <<pageVars, up, device, edits>> /\ events' = events + 1
          /\ down' = Append(down, StateOf(device))
      BY <1>3 DEF Change, Event
    <2> QED BY <2>1, DeviceOf, InvPublish
  <1>4. ASSUME NEW kind \in Kinds, SelectTarget(kind)
        PROVE  Inv'
    <2> DEFINE d == [device EXCEPT !.kind = kind, !.epoch = @ + 1,
                                   !.pos = AtHome]
    <2>1. d \in Devices /\ d.jobs = device.jobs /\ d.moving = device.moving
      <3>1. AtHome \in [Joints -> Positions] /\ device.epoch + 1 \in Nat
        BY DeviceOf, TypesOfParts
      <3> HIDE DEF AtHome
      <3> QED BY <3>1, DeviceOf DEF Devices
    <2>2. /\ UNCHANGED <<pageVars, up, edits>> /\ events' = events + 1
          /\ device' = d /\ down' = Append(down, StateOf(d))
      BY <1>4 DEF SelectTarget, Event
    <2> HIDE DEF d
    <2> QED BY <2>1, <2>2, DeviceOf, InvPublish
  <1>5. CASE TakeOver
    BY <1>5, InvControl
  <1> QED BY <1>1, <1>2, <1>3, <1>4, <1>5 DEF Others

LEMMA InvFinishMotion ==
    ASSUME Inv, FinishMotion
    PROVE  Inv'
  <1> DEFINE j == Head(device.jobs)
             ended == j.by = "page"
  <1>1. PICK pos \in {Reached(device.pos, j.joints), device.pos} :
          LET d == [device EXCEPT !.moving = FALSE, !.jobs = Tail(@),
                                  !.pos = pos] IN
            /\ device' = d
            /\ down' = down \o <<StateOf(d)>> \o EndedIf(ended)
    BY DEF FinishMotion
  <1> DEFINE d == [device EXCEPT !.moving = FALSE, !.jobs = Tail(@),
                                 !.pos = pos]
             m == StateOf(d)
  <1>2. /\ device' = d
        /\ down' = down \o <<m>> \o EndedIf(ended)
        /\ UNCHANGED <<pageVars, up, edits, events>> /\ device.jobs # <<>>
    BY <1>1, DeviceOf DEF FinishMotion
  <1>3. j \in Jobs
    BY <1>2, DeviceOf
  <1>4. pos \in [Joints -> Positions]
    <2>1. device.pos \in [Joints -> Positions]
      BY DeviceOf DEF Devices
    <2>2. j.joints \in Targets
      BY <1>3 DEF Jobs
    <2>3. Reached(device.pos, j.joints) \in [Joints -> Positions]
      BY <2>1, <2>2 DEF Reached, Targets
    <2> QED BY <2>1, <2>3
  <1>5. Tail(device.jobs) \in Seq(Jobs)
    BY <1>2, DeviceOf
  <1>6. d \in Devices /\ d.jobs = Tail(device.jobs) /\ d.moving = FALSE
    BY <1>4, <1>5, DeviceOf DEF Devices
  <1> HIDE DEF d
  <1>7. m \in Messages /\ m.type # "ended" /\ ended \in BOOLEAN
    BY <1>6, StateIsMessage
  <1>8. /\ ended => OnePage(device.jobs) /\ NoPage(d.jobs)
        /\ ~ended => /\ NoPage(device.jobs) => NoPage(d.jobs)
                     /\ OnePage(device.jobs) => OnePage(d.jobs)
    <2>1. NoPage(device.jobs) \/ OnePage(device.jobs)
      BY DEF Inv, OneMove, InOnePlace
    <2> QED BY <1>2, <1>6, <2>1, DeviceOf, JobDone
  <1> HIDE DEF m, j, ended
  <1> QED BY <1>2, <1>6, <1>7, <1>8, DeviceOf, EndKeeps

-----------------------------------------------------------------------------
LEMMA InvInit ==
    ASSUME Init
    PROVE  Inv
  <1>1. PICK kind \in Kinds : device = FirstDevice(kind)
    BY DEF Init
  <1>2. /\ device \in Devices /\ device.moving = FALSE /\ device.jobs = <<>>
    BY <1>1, TypesOfParts DEF FirstDevice, Devices
  <1>3. Seen(device) \in SeenDevices
    BY <1>2, SeenType
  <1>4. shown \in [device : SeenDevices, control : BOOLEAN, listed : Lists]
    BY <1>3 DEF Init, Lists
  <1>5. TypeOK
    BY <1>2, <1>4, TypesOfParts DEF Init, TypeOK, PageType
  <1>6. OneMove
    BY <1>2 DEF Init, OneMove, InOnePlace, NoPage, NoEnd
  <1>7. DraftsFit /\ SentAsMeant
    BY FreshFits DEF Init, DraftsFit, SentAsMeant
  <1> QED BY <1>5, <1>6, <1>7 DEF Inv

LEMMA InvNext ==
    ASSUME Inv, [Next]_vars
    PROVE  Inv'
  <1>1. CASE User \/ RunEffects \/ TargetsLoaded
    <2>1. CASE AcquireControl
      BY <2>1, InvControl
    <2>2. CASE ~AcquireControl
      <3>1. PageStep
        BY <1>1, <2>2, ChangeIsPageStep, CommitIsPageStep, ApplyIsPageStep,
           CancelIsPageStep, PlayIsPageStep, DialogIsPageStep, PanelIsPageStep, WorkspaceIsPageStep,
           EffectsArePageStep DEF User
      <3> QED BY <3>1, PageStepKeeps
    <2> QED BY <2>1, <2>2
  <1>2. CASE Receive
    BY <1>2, InvReceive
  <1>3. CASE HandleCommand
    BY <1>3, InvHandleCommand
  <1>4. CASE FinishMotion
    BY <1>4, InvFinishMotion
  <1>5. CASE StartMotion \/ Others
    BY <1>5, InvOthers
  <1>6. CASE UNCHANGED vars
    <2>1. UNCHANGED <<shown, moves, local, panel, dialog, due, up, down,
                      device, edits, events>>
      BY <1>6 DEF vars, pageVars
    <2> QED BY <2>1 DEF Inv, TypeOK, PageType, OneMove, DraftsFit, SentAsMeant
  <1> QED BY <1>1, <1>2, <1>3, <1>4, <1>5, <1>6 DEF Next

(* Every reachable state is of its types and keeps the invariant.          *)
THEOREM Invariance == Spec => []Inv
  BY InvInit, InvNext, PTL DEF Spec

(* However commands, answers and motions interleave, a page waits for one  *)
(* motion at most, and what it waits for is in exactly one place.          *)
THEOREM OneMotionAtATime == Spec => []OneAtATime
  <1>1. ASSUME Inv PROVE OneAtATime
    <2>1. NoPage(device.jobs) => Cardinality(Awaited) = 0
      <3>1. NoPage(device.jobs) => Awaited = {}
        BY DEF NoPage, Awaited
      <3> QED BY <3>1, FS_EmptySet
    <2>2. OnePage(device.jobs) => Cardinality(Awaited) = 1
      <3>1. OnePage(device.jobs) => \E k : Awaited = {k}
        BY DEF OnePage, Awaited
      <3> QED BY <3>1, FS_Singleton
    <2>3. /\ NoEnd(down) => Ends(down) = 0
          /\ OneEnd(down) => Ends(down) = 1
      BY <1>1, EndsOfBatch DEF Inv, TypeOK
    <2>4. \/ moves = 0 /\ Len(up) = 0 /\ NoPage(device.jobs) /\ NoEnd(down)
          \/ moves = 1 /\ Len(up) = 1 /\ NoPage(device.jobs) /\ NoEnd(down)
          \/ moves = 1 /\ Len(up) = 0 /\ OnePage(device.jobs) /\ NoEnd(down)
          \/ moves = 1 /\ Len(up) = 0 /\ NoPage(device.jobs) /\ OneEnd(down)
      BY <1>1 DEF Inv, OneMove, InOnePlace
    <2> DEFINE u == Len(up)
               n == Cardinality(Awaited)
               e == Ends(down)
    <2>5. /\ moves \in {0, 1} /\ u + n + e = moves
      <3>1. /\ NoPage(device.jobs) => n = 0
            /\ OnePage(device.jobs) => n = 1
            /\ NoEnd(down) => e = 0
            /\ OneEnd(down) => e = 1
        BY <2>1, <2>2, <2>3
      <3>2. \/ moves = 0 /\ u = 0 /\ n = 0 /\ e = 0
            \/ moves = 1 /\ u = 1 /\ n = 0 /\ e = 0
            \/ moves = 1 /\ u = 0 /\ n = 1 /\ e = 0
            \/ moves = 1 /\ u = 0 /\ n = 0 /\ e = 1
        BY <2>4, <3>1
      <3> HIDE DEF u, n, e
      <3> QED BY <3>2
    <2> QED BY <2>5 DEF OneAtATime
  <1> QED BY <1>1, Invariance, PTL

(* Whatever a page sends was drafted for the target it is sent to, or in   *)
(* the moment before the effects of a new target; and a remote device, if  *)
(* it is known to be one, is moved only after the user was asked.          *)
THEOREM CommandsAreMeant == Spec => []SentAsMeant
  BY Invariance, PTL DEF Inv

-----------------------------------------------------------------------------
(***************************************************************************)
(* A slider that was released                                              *)
(***************************************************************************)
KeptOrSent ==
    local # None /\ local' # None /\ local.commit /\ local.pending # NoPending
    /\ local'.pending = NoPending =>
        \/ /\ Len(up') = Len(up) + 1
           /\ Last(up').joints = Single(local.pending.joint, local.pending.value)
        \/ "target" \in due \/ ~IsSimulator
        \/ shown.device.action \in {"play", "rest"}

LEMMA SentIsLast ==
    ASSUME TypeOK, NEW joints \in Targets, NEW made \in Nat,
           NEW asked \in BOOLEAN, SendMove(joints, made, asked)
    PROVE  Len(up') = Len(up) + 1 /\ Last(up').joints = joints
  <1> DEFINE c == [action |-> "absolute_move", joints |-> joints,
                   epoch |-> shown.device.epoch,
                   made |-> made, early |-> "target" \in due,
                   kind |-> shown.device.kind,
                   known |-> shown.listed = "target", asked |-> asked]
  <1>1. up' = Append(up, c) /\ up \in Seq(Commands) /\ c.joints = joints
    BY DEF SendMove, SendCommand, TypeOK
  <1>2. c \in Commands
    BY DEF TypeOK, PageType, SeenDevices, Commands, Moves
  <1> HIDE DEF c
  <1>3. Len(Append(up, c)) = Len(up) + 1 /\ Append(up, c)[Len(up) + 1] = c
    BY <1>1, <1>2
  <1> QED BY <1>1, <1>3 DEF Last

LEMMA FlushKeeps ==
    ASSUME TypeOK, NEW l \in Locals, l.pending # NoPending,
           FlushSimulatorJoint(l), local'.pending = NoPending
    PROVE  /\ Len(up') = Len(up) + 1
           /\ Last(up').joints = Single(l.pending.joint, l.pending.value)
  <1>1. /\ Single(l.pending.joint, l.pending.value) \in Targets
        /\ l.pending.made \in Nat
    BY TypesOfParts DEF Locals, Pendings
  <1>2. SendMove(Single(l.pending.joint, l.pending.value),
                 l.pending.made, FALSE)
    BY DEF FlushSimulatorJoint
  <1> QED BY <1>1, <1>2, SentIsLast

LEMMA EffectsKeep ==
    ASSUME Inv, RunEffects
    PROVE  KeptOrSent
  <1> SUFFICES ASSUME local # None, local.commit, local.pending # NoPending,
                      local'.pending = NoPending, "target" \notin due,
                      IsSimulator, shown.device.action \notin {"play", "rest"}
               PROVE  /\ Len(up') = Len(up) + 1
                      /\ Last(up').joints = Single(local.pending.joint,
                                                  local.pending.value)
    BY DEF KeptOrSent
  <1>1. FollowDevice(local) /\ local \in Locals
    BY DEF RunEffects, Inv, TypeOK, PageType
  <1>2. shown.device.action \in {"none", "absolute_move"}
    BY DEF Inv, TypeOK, PageType, SeenDevices, Actions, Moves
  <1>3. CASE local' = local
    BY <1>3
  <1>4. CASE FlushSimulatorJoint([local EXCEPT !.inFlight = FALSE])
    <2> DEFINE k == [local EXCEPT !.inFlight = FALSE]
    <2>1. k \in Locals /\ k.pending = local.pending
      BY <1>1 DEF Locals
    <2> HIDE DEF k
    <2> QED BY <1>4, <2>1, FlushKeeps DEF k, Inv
  <1> QED BY <1>1, <1>2, <1>3, <1>4 DEF FollowDevice

LEMMA UserKeeps ==
    ASSUME Inv, User
    PROVE  KeptOrSent
  <1>1. ASSUME NEW j \in Joints, NEW v \in Values, ChangeJointTarget(j, v)
        PROVE  KeptOrSent
    <2>1. local \in Locals
      BY <1>1 DEF ChangeJointTarget, Inv, TypeOK, PageType
    <2>2. \/ local'.pending = local.pending
          \/ local'.pending = [joint |-> j, value |-> v,
                               made |-> shown.device.epoch]
      BY <1>1, <2>1 DEF ChangeJointTarget, Locals
    <2>3. [joint |-> j, value |-> v, made |-> shown.device.epoch] # NoPending
      BY OverviewAssumption DEF NoPending
    <2> QED BY <2>2, <2>3 DEF KeptOrSent
  <1>2. CASE CommitSimulatorJoint
    <2> DEFINE l == [local EXCEPT !.commit = TRUE, !.held = shown.control]
    <2>1. local \in Locals /\ FlushSimulatorJoint(l) /\ shown.control \in BOOLEAN
      BY <1>2 DEF CommitSimulatorJoint, Inv, TypeOK, PageType
    <2>2. l \in Locals /\ l.pending = local.pending
      BY <2>1 DEF Locals
    <2> HIDE DEF l
    <2> QED BY <2>1, <2>2, FlushKeeps DEF KeptOrSent, Inv
  <1>3. CASE ApplyRemoteJointDraft
    BY <1>3 DEF ApplyRemoteJointDraft, KeptOrSent, IsRemote, IsSimulator, TargetIs
  <1>4. CASE ToggleJointEditor
    <2>1. local \in Locals /\ local' = [local EXCEPT !.open = TRUE]
      BY <1>4 DEF ToggleJointEditor, Inv, TypeOK, PageType
    <2> QED BY <2>1 DEF KeptOrSent, Locals
  <1>5. CASE CancelRemoteJointDraft \/ SwitchWorkspace
    <2>1. CASE CancelRemoteJointDraft
      <3>1. /\ local \in Locals
            /\ local' = [local EXCEPT !.draft = NoDraft]
        BY <2>1 DEF CancelRemoteJointDraft, Inv, TypeOK, PageType
      <3> QED BY <3>1 DEF KeptOrSent, Locals
    <2>2. CASE SwitchWorkspace
      BY <2>2 DEF SwitchWorkspace, KeptOrSent
    <2> QED BY <1>5, <2>1, <2>2
  <1>6. CASE UNCHANGED local
    BY <1>6 DEF KeptOrSent
  <1> QED BY <1>1, <1>2, <1>3, <1>4, <1>5, <1>6
          DEF User, ConfirmRemoteMove, CancelRemoteMove, ApplyPanelDraft,
              AcquireControl, pageVars, ChangePanelDraft, Turn, Play

(* A slider that was released is remembered until its value is sent, unless *)
(* it is left, its target changes, or another motion has the device.       *)
THEOREM NothingReleasedIsForgotten == Spec => ReleaseIsKept
  <1>1. ASSUME Inv, [Next]_vars PROVE [KeptOrSent]_vars
    <2>1. CASE UNCHANGED local
      BY <2>1 DEF KeptOrSent
    <2>2. CASE User \/ RunEffects
      BY <1>1, <2>2, EffectsKeep, UserKeeps
    <2>3. ~(User \/ RunEffects) => UNCHANGED local
      BY <1>1 DEF Next, Receive, TargetsLoaded, HandleCommand, StartMotion,
         FinishMotion, Others, OthersMove, Change, TakeOver, SelectTarget,
         pageVars, vars
    <2> QED BY <2>1, <2>2, <2>3
  <1> QED BY <1>1, Invariance, PTL DEF Spec, ReleaseIsKept, KeptOrSent
=============================================================================
