---------------------------- MODULE SceneProofs ----------------------------
(***************************************************************************)
(* Proofs about Scene.  First the scene: its types, what a scene that is   *)
(* gone leaves behind, and that the scene drawn is the one of the target   *)
(* and the state shown.  Then the messages: whatever JSON value one side   *)
(* accepts and passes on, the other side reads, but for the differences    *)
(* that the Known predicates of WireMessages and Controls name; from the   *)
(* formats up to states, events, commands and the agent's messages, and    *)
(* last that this covers every message built there (BothEndsAgree).        *)
(***************************************************************************)
EXTENDS Scene, FiniteSetTheorems, TLAPS

-----------------------------------------------------------------------------
(* The scene graph: dispose meets every mesh                               *)

Groups == {"root", "base_yaw", "base_pitch", "elbow_pitch", "wrist_roll",
           "wrist_pitch", "head"}

(* What is met down to level n.                                            *)
MetAt(n) ==
    CASE n = 0 -> {"root"}
      [] n = 1 -> {"root", "base_yaw"}
      [] n = 2 -> {"root", "base_yaw", "base_pitch"}
      [] n = 3 -> {"root", "base_yaw", "base_pitch", "elbow_pitch"}
      [] n = 4 -> {"root", "base_yaw", "base_pitch", "elbow_pitch", "wrist_roll"}
      [] n = 5 -> Groups \ {"head"}
      [] n = 6 -> Groups

Below(above) == above \union {g \in DOMAIN Parent : Parent[g] \in above}

LEMMA ParentIs ==
    /\ DOMAIN Parent = Groups \ {"root"}
    /\ Parent["base_yaw"] = "root" /\ Parent["base_pitch"] = "base_yaw"
    /\ Parent["elbow_pitch"] = "base_pitch" /\ Parent["wrist_roll"] = "elbow_pitch"
    /\ Parent["wrist_pitch"] = "wrist_roll" /\ Parent["head"] = "wrist_pitch"
  BY DEF Parent, Groups

LEMMA BelowIs ==
    /\ Below(MetAt(0)) = MetAt(1) /\ Below(MetAt(1)) = MetAt(2)
    /\ Below(MetAt(2)) = MetAt(3) /\ Below(MetAt(3)) = MetAt(4)
    /\ Below(MetAt(4)) = MetAt(5) /\ Below(MetAt(5)) = MetAt(6)
  <1>1. Below(MetAt(0)) = MetAt(1)
    BY ParentIs DEF Below, MetAt, Groups
  <1>2. Below(MetAt(1)) = MetAt(2)
    BY ParentIs DEF Below, MetAt, Groups
  <1>3. Below(MetAt(2)) = MetAt(3)
    BY ParentIs DEF Below, MetAt, Groups
  <1>4. Below(MetAt(3)) = MetAt(4)
    BY ParentIs DEF Below, MetAt, Groups
  <1>5. Below(MetAt(4)) = MetAt(5)
    BY ParentIs DEF Below, MetAt, Groups
  <1>6. Below(MetAt(5)) = MetAt(6)
    BY ParentIs DEF Below, MetAt, Groups
  <1> QED BY <1>1, <1>2, <1>3, <1>4, <1>5, <1>6

(* The recursion has a solution: what is met at each level.                *)
LEMMA TraversedIs == Traversed[6] = Groups
  <1> DEFINE F(f) == [n \in 0 .. 6 |->
                        IF n = 0 THEN {"root"} ELSE Below(f[n - 1])]
             met == [n \in 0 .. 6 |-> MetAt(n)]
  <1>1. met = F(met)
    <2>1. ASSUME NEW n \in 0 .. 6 PROVE met[n] = F(met)[n]
      <3>1. n \in {0, 1, 2, 3, 4, 5, 6}
        OBVIOUS
      <3>2. CASE n = 0
        BY <3>2 DEF MetAt
      <3>3. CASE n # 0
        <4>1. n - 1 \in 0 .. 6 /\ met[n - 1] = MetAt(n - 1)
          BY <3>3
        <4>2. Below(MetAt(n - 1)) = MetAt(n)
          BY <3>1, <3>3, BelowIs
        <4> QED BY <3>3, <4>1, <4>2
      <3> QED BY <3>2, <3>3
    <2> QED BY <2>1
  <1>2. Traversed = F(Traversed)
    <2>1. Traversed = CHOOSE f : f = F(f)
      BY DEF Traversed, Below
    <2> HIDE DEF F, met
    <2> QED BY <1>1, <2>1
  <1> HIDE DEF met
  <1>3. /\ Traversed[0] = MetAt(0)
        /\ \A n \in 1 .. 6 : Traversed[n] = Below(Traversed[n - 1])
    <2>1. /\ F(Traversed)[0] = {"root"}
          /\ \A n \in 1 .. 6 : F(Traversed)[n] = Below(Traversed[n - 1])
      OBVIOUS
    <2> HIDE DEF F
    <2> QED BY <1>2, <2>1 DEF MetAt
  <1> HIDE DEF F
  <1>4. Traversed[1] = MetAt(1)
    BY <1>3, BelowIs
  <1>5. Traversed[2] = MetAt(2)
    BY <1>3, <1>4, BelowIs
  <1>6. Traversed[3] = MetAt(3)
    BY <1>3, <1>5, BelowIs
  <1>7. Traversed[4] = MetAt(4)
    BY <1>3, <1>6, BelowIs
  <1>8. Traversed[5] = MetAt(5)
    BY <1>3, <1>7, BelowIs
  <1>9. Traversed[6] = MetAt(6)
    BY <1>3, <1>8, BelowIs
  <1> QED BY <1>9 DEF MetAt

(* Every geometry and every material that was created is released.         *)
LEMMA NothingForgotten == Created \subseteq Disposed
  <1>1. \A p, g, m : /\ AddMesh(p, g, m).parent = p
                     /\ AddMesh(p, g, m).geometry = g
                     /\ AddMesh(p, g, m).material = m
    BY DEF AddMesh
  <1>2. ASSUME NEW m \in Meshes PROVE m.parent \in Groups
    BY <1>1 DEF Meshes, Groups
  <1>3. ASSUME NEW m \in Meshes
        PROVE  m.geometry \in Disposed /\ m.material \in Disposed
    BY <1>2, TraversedIs DEF Disposed
  <1>4. ASSUME NEW x \in Segments PROVE x \in Disposed
    <2>1. AddMesh("root", x, x) \in Meshes
      BY DEF Meshes
    <2> QED BY <1>1, <1>3, <2>1
  <1>5. ASSUME NEW p, NEW g, NEW x, AddMesh(p, g, x) \in Meshes
        PROVE  x \in Disposed
    BY <1>1, <1>3, <1>5
  <1>6. /\ AddMesh("base_pitch", "lower-arm", "body") \in Meshes
        /\ AddMesh("base_yaw", "yaw-collar", "edge") \in Meshes
        /\ AddMesh("head", "left-display-screen", "display") \in Meshes
        /\ AddMesh("head", "head-light-surface", "headLight") \in Meshes
        /\ AddMesh("head", "head-light-glow-near", "nearGlow") \in Meshes
        /\ AddMesh("head", "head-light-glow-far", "farGlow") \in Meshes
        /\ AddMesh("root", "status-strip", "status") \in Meshes
    BY DEF Meshes
  <1>7. Materials \subseteq Disposed
    <2>1. {"body", "edge", "display", "headLight", "nearGlow", "farGlow",
           "status"} \subseteq Disposed
      BY <1>5, <1>6
    <2> QED BY <1>4, <2>1 DEF Materials
  <1> QED BY <1>3, <1>7 DEF Created

-----------------------------------------------------------------------------
(* Cleanups                                                                *)

(* cleanup has an attempt for all that a mount acquires, and its           *)
(* conditions are met.                                                     *)
LEMMA AcquiredIsAttempted ==
    ASSUME NEW d \in BOOLEAN, NEW i \in 0 .. Len(Order)
    PROVE  Acquired(d, i) \subseteq Attempted(Acquired(d, i))
  <1> DEFINE held == Acquired(d, i)
  <1>1. /\ Len(Order) = 10
        /\ \A j \in 1 .. 10 : Order[j] = "listener" => j = 8
        /\ \A j \in 1 .. 10 : Order[j] = "canvas" => j = 2
        /\ Order[1] = "renderer" /\ Order[6] = "controls"
    BY DEF Order
  <1>2. ASSUME NEW r \in held PROVE \E j \in 1 .. i : r = Order[j]
    BY <1>2 DEF Acquired
  <1>3. ASSUME NEW j \in 1 .. i, Order[j] \notin OnlyDiagnosed
        PROVE  Order[j] \in held
    BY <1>3 DEF Acquired
  <1>4. "renderer" \notin OnlyDiagnosed /\ "controls" \notin OnlyDiagnosed
    BY DEF OnlyDiagnosed
  <1> HIDE DEF held
  <1>5. "listener" \in held => "controls" \in held
    BY <1>1, <1>2, <1>3, <1>4
  <1>6. "canvas" \in held => "renderer" \in held
    BY <1>1, <1>2, <1>3, <1>4
  <1>7. ASSUME NEW r \in held PROVE Needs(r) \subseteq held
    BY <1>5, <1>6, <1>7 DEF Needs
  <1>8. ToSet(Order) \subseteq ToSet(Attempts)
    BY DEF ToSet, Order, Attempts
  <1>9. ASSUME NEW r \in held PROVE r \in ToSet(Attempts)
    <2>1. PICK j \in 1 .. i : r = Order[j]
      BY <1>2
    <2>2. j \in DOMAIN Order
      BY <1>1 DEF Order
    <2>3. r \in ToSet(Order)
      BY <2>1, <2>2 DEF ToSet
    <2> QED BY <1>8, <2>3
  <1>10. \A r \in held : r \in Attempted(held)
    BY <1>7, <1>9 DEF Attempted
  <1> QED BY <1>10 DEF held

(* What a cleanup leaves besides what threw: the shadow map, at most.      *)
Leaves(c) == c.lost \subseteq {"shadow"} /\ c.cost \in Nat

LEMMA CleanupLeaves ==
    ASSUME NEW held, held \ {"shadow"} \subseteq Attempted(held),
           NEW c \in Cleanups(held)
    PROVE  Leaves(c)
  <1>1. PICK t \in {{}} \union {{r} : r \in Attempted(held)} :
          c = [lost |-> ((held \ Freed(held, t)) \ t) \union Forgotten(Freed(held, t)),
               cost |-> Cardinality(t)]
    BY DEF Cleanups
  <1>2. (held \ Freed(held, t)) \ t \subseteq {"shadow"}
    BY DEF Freed
  <1>3. Forgotten(Freed(held, t)) = {}
    BY NothingForgotten DEF Forgotten
  <1>4. Cardinality(t) \in Nat
    <2>1. IsFiniteSet(t)
      BY <1>1, FS_EmptySet, FS_Singleton
    <2> QED BY <2>1, FS_CardinalityType
  <1> QED BY <1>1, <1>2, <1>3, <1>4 DEF Leaves

LEMMA HoldingsAreAttempted ==
    ASSUME NEW held \in Holdings
    PROVE  held \ {"shadow"} \subseteq Attempted(held)
  <1>1. PICK h \in Undrawn : held \in {h, WithShadow(h)}
    BY DEF Holdings
  <1>2. h \subseteq Attempted(h)
    <2>1. CASE h = {}
      BY <2>1
    <2>2. CASE h # {}
      <3>1. PICK d \in BOOLEAN : h = Acquired(d, Len(Order))
        BY <1>1, <2>2 DEF Undrawn
      <3>2. Len(Order) \in 0 .. Len(Order)
        BY DEF Order
      <3> QED BY <3>1, <3>2, AcquiredIsAttempted
    <2> QED BY <2>1, <2>2
  <1>3. h \subseteq held /\ held \ {"shadow"} \subseteq h
    BY <1>1 DEF WithShadow
  <1>4. Attempted(h) \subseteq Attempted(held)
    BY <1>3 DEF Attempted
  <1> QED BY <1>2, <1>3, <1>4

LEMMA CleanupsLeave ==
    /\ \A held \in Holdings : \A c \in CleanupOfScene[held] : Leaves(c)
    /\ \A d \in BOOLEAN : \A c \in CleanupOfMount[d] : Leaves(c)
  <1>1. ASSUME NEW held \in Holdings, NEW c \in CleanupOfScene[held]
        PROVE  Leaves(c)
    BY <1>1, HoldingsAreAttempted, CleanupLeaves DEF CleanupOfScene
  <1>2. ASSUME NEW d \in BOOLEAN, NEW c \in CleanupOfMount[d]
        PROVE  Leaves(c)
    <2>1. PICK i \in 0 .. Len(Order) - 1 : c \in Cleanups(Acquired(d, i))
      BY DEF CleanupOfMount
    <2>2. i \in 0 .. Len(Order)
      BY DEF Order
    <2>3. Acquired(d, i) \subseteq Attempted(Acquired(d, i))
      BY <2>2, AcquiredIsAttempted
    <2> QED BY <2>1, <2>3, CleanupLeaves
  <1> QED BY <1>1, <1>2

(* What effects have done so far, with nothing left but shadow maps.       *)
Fields == {"life", "leaked", "cost"}
Clean(x) ==
    /\ DOMAIN x = Fields /\ x.cost \in Nat /\ x.leaked \subseteq {"shadow"}
    /\ x.life # None => x.life.held \in Holdings

LEMMA AfterIs ==
    ASSUME NEW s, Clean(s), NEW c, Leaves(c), NEW l,
           l # None => l.held \in Holdings
    PROVE  After(s, c, l).life = l /\ Clean(After(s, c, l))
  <1> DEFINE a == After(s, c, l)
  <1>1. /\ a.life = l /\ a.leaked = s.leaked \union c.lost
        /\ a.cost = s.cost + c.cost /\ DOMAIN a = Fields
    BY DEF After, Fields
  <1> HIDE DEF a
  <1>2. a.leaked \subseteq {"shadow"} /\ a.cost \in Nat
    BY <1>1 DEF Clean, Leaves
  <1>3. a.life = l /\ Clean(a)
    BY <1>1, <1>2 DEF Clean
  <1> QED BY <1>3 DEF a

(* A scene that is closed is gone, and left nothing more.                  *)
LEMMA ClosedIs ==
    ASSUME NEW x, Clean(x), NEW s \in Closed(x)
    PROVE  s.life = None /\ Clean(s)
  <1>1. CASE x.life = None
    BY <1>1 DEF Closed
  <1>2. CASE x.life # None /\ ~x.life.ready
    <2>1. s = [x EXCEPT !.life = None]
      BY <1>2 DEF Closed
    <2> QED BY <2>1 DEF Clean, Fields
  <1>3. CASE x.life # None /\ x.life.ready
    <2>1. PICK c \in CleanupOfScene[x.life.held] : s = After(x, c, None)
      BY <1>3 DEF Closed
    <2>2. Leaves(c)
      BY <1>3, CleanupsLeave DEF Clean
    <2> QED BY <2>1, <2>2, AfterIs
  <1> QED BY <1>1, <1>2, <1>3

LEMMA NewScenesHold ==
    ASSUME build.diagnosed \in BOOLEAN
    PROVE  NewScene.held \in Holdings /\ Unavailable.held \in Holdings
  <1>1. Acquired(build.diagnosed, Len(Order)) \in Holdings
    BY DEF Holdings, Undrawn
  <1>2. {} \in Holdings
    BY DEF Holdings, Undrawn
  <1>3. NewScene.held = Acquired(build.diagnosed, Len(Order))
    BY DEF NewScene
  <1>4. Unavailable.held = {}
    <2>1. DOMAIN NewScene = {"key", "ready", "ticking", "lamp", "note", "onto",
                             "seen", "held"}
      BY DEF NewScene
    <2> DEFINE a == [NewScene EXCEPT !.ready = FALSE, !.ticking = FALSE,
                                     !.lamp = None, !.note = None]
    <2>2. "held" \in DOMAIN a
      BY <2>1
    <2>3. Unavailable = [a EXCEPT !.held = {}]
      BY DEF Unavailable
    <2> HIDE DEF a
    <2> QED BY <2>2, <2>3
  <1> QED BY <1>1, <1>2, <1>3, <1>4

(* One that is opened is new or unavailable, and a failure left nothing.   *)
LEMMA OpenedIs ==
    ASSUME build.diagnosed \in BOOLEAN, NEW x, Clean(x), NEW s \in Opened(x)
    PROVE  s.life \in {NewScene, Unavailable} /\ Clean(s)
  <1>1. CASE s = [x EXCEPT !.life = NewScene]
    <2>1. s.life = NewScene /\ s.leaked = x.leaked /\ s.cost = x.cost
          /\ DOMAIN s = Fields
      BY <1>1 DEF Clean, Fields
    <2> QED BY <2>1, NewScenesHold DEF Clean
  <1>2. CASE s # [x EXCEPT !.life = NewScene]
    <2> DEFINE failed == [x EXCEPT !.cost = @ + 1]
    <2>1. PICK c \in CleanupOfMount[build.diagnosed] :
              s = After(failed, c, Unavailable)
      BY <1>2 DEF Opened
    <2>2. Clean(failed)
      <3>1. failed.leaked = x.leaked /\ failed.cost = x.cost + 1
            /\ failed.life = x.life /\ DOMAIN failed = Fields
        BY DEF Clean, Fields
      <3> HIDE DEF failed
      <3> QED BY <3>1 DEF Clean
    <2>3. Leaves(c)
      BY CleanupsLeave
    <2> HIDE DEF failed
    <2> QED BY <2>1, <2>2, <2>3, NewScenesHold, AfterIs
  <1> QED BY <1>1, <1>2

(* Both mounts of a new scene, from what is clean.                         *)
LEMMA MountsAre ==
    ASSUME build.diagnosed \in BOOLEAN, Clean(Now),
           NEW s \in FirstMounts \union Mounts
    PROVE  s.life \in {NewScene, Unavailable} /\ Clean(s)
  <1>1. ASSUME NEW x \in FirstMounts
        PROVE  x.life \in {NewScene, Unavailable} /\ Clean(x)
    <2>1. PICK y \in Closed(Now) : x \in Opened(y)
      BY DEF FirstMounts
    <2>2. Clean(y)
      BY ClosedIs
    <2> QED BY <2>1, <2>2, OpenedIs
  <1> DEFINE again == UNION {Closed(x) : x \in FirstMounts}
  <1>2. ASSUME NEW x \in again PROVE Clean(x)
    <2>1. PICK y \in FirstMounts : x \in Closed(y)
      OBVIOUS
    <2> QED BY <1>1, <2>1, ClosedIs
  <1>3. CASE s \in FirstMounts
    BY <1>1, <1>3
  <1>4. CASE s \notin FirstMounts
    <2>1. s \in UNION {Opened(x) : x \in again}
      BY <1>4 DEF Mounts, SecondMounts
    <2> HIDE DEF again
    <2>2. PICK x \in again : s \in Opened(x)
      BY <2>1
    <2> QED BY <1>2, <2>2, OpenedIs
  <1> QED BY <1>3, <1>4

-----------------------------------------------------------------------------
(* Looks and lamps                                                         *)

LEMMA LooksAre ==
    ASSUME NEW look \in Given
    PROVE  /\ look.joints \in Poses /\ DOMAIN look.joints = LEFLY_JOINT_NAMES
           /\ look.joints = [j \in LEFLY_JOINT_NAMES |-> look.joints[j]]
           /\ [color |-> look.color, brightness |-> look.brightness] \in Lights
           /\ look.strip \in Strips /\ look.effect \in Effects
  <1>1. PICK x \in DrawnStates : look = Look(x) /\ Telemetry(x)
    BY DEF Given, Looks, Look
  <1>2. look.joints = Positions(x)
    BY <1>1 DEF Look
  <1>3. /\ DOMAIN Positions(x) = LEFLY_JOINT_NAMES
        /\ Positions(x) = [j \in LEFLY_JOINT_NAMES |-> Positions(x)[j]]
    BY DEF Positions
  <1>4. /\ look.joints \in Poses /\ look.strip \in Strips
        /\ look.effect \in Effects
    BY DEF Poses, Strips, Effects
  <1>5. [color |-> look.color, brightness |-> look.brightness] \in Lights
    BY DEF Lights
  <1> QED BY <1>2, <1>3, <1>4, <1>5

LEMMA NewLampIs ==
    /\ NewLamp \in Lamps
    /\ \A lamp \in Lamps : DOMAIN lamp.pivots = LEFLY_JOINT_NAMES
  <1>1. NewLamp.pivots \in Poses /\ DOMAIN NewLamp.pivots = LEFLY_JOINT_NAMES
    BY DEF Poses, NewLamp
  <1>2. NewLamp.light \in Lights
    BY DEF Lights, NewLamp
  <1>3. NewLamp.strip \in [emitted : Strips, surface : Strips \union {BLACK, "darkened"},
                           effect : Effects, since : Clock]
    BY DEF NewLamp, Strips, Effects, Clock, Unclocked, LongSince
  <1>4. NewLamp = [pivots |-> NewLamp.pivots, light |-> NewLamp.light,
                   strip |-> NewLamp.strip]
    BY DEF NewLamp
  <1>5. NewLamp \in Lamps
    BY <1>1, <1>2, <1>3, <1>4 DEF Lamps
  <1>6. \A p \in Poses : DOMAIN p = LEFLY_JOINT_NAMES
    BY <1>1, LooksAre DEF Poses
  <1> QED BY <1>5, <1>6 DEF Lamps

(* A lamp that is dressed shows the look it is dressed in.                 *)
LEMMA DressedIs ==
    ASSUME NEW lamp \in Lamps, shown.look \in Given
    PROVE  Dressed(lamp) \in Lamps /\ Shows(Dressed(lamp), shown.look)
  <1> DEFINE look == shown.look
             a == SetJointPositions(lamp, look.joints)
             b == SetHeadLight(a, look.color, look.brightness)
             c == SetStatusStrip(b, look.strip, look.effect)
             light == [color |-> look.color, brightness |-> look.brightness]
  <1>1. /\ look.joints \in Poses /\ light \in Lights
        /\ look.strip \in Strips /\ look.effect \in Effects
        /\ DOMAIN look.joints = LEFLY_JOINT_NAMES
        /\ look.joints = [j \in LEFLY_JOINT_NAMES |-> look.joints[j]]
    BY LooksAre
  <1>2. /\ DOMAIN lamp = {"pivots", "light", "strip"}
        /\ lamp.strip.since \in Clock
    BY DEF Lamps
  <1>3. Dressed(lamp) = c
    BY DEF Dressed
  <1> HIDE DEF look
  <1>4. /\ a.pivots = look.joints /\ a.light = lamp.light /\ a.strip = lamp.strip
        /\ DOMAIN a = {"pivots", "light", "strip"}
    BY <1>1, <1>2 DEF SetJointPositions
  <1> HIDE DEF a
  <1>5. /\ b.pivots = look.joints /\ b.light = light /\ b.strip = lamp.strip
        /\ DOMAIN b = {"pivots", "light", "strip"}
    BY <1>4 DEF SetHeadLight
  <1> HIDE DEF b, light
  <1>6. PICK since \in Clock :
          c.strip = [emitted |-> look.strip, surface |-> look.strip,
                     effect |-> look.effect, since |-> since]
    <2>1. 0 \in Clock
      BY DEF Clock, Unclocked, LongSince
    <2> QED BY <1>2, <1>5, <2>1 DEF SetStatusStrip
  <1>7. /\ c.pivots = look.joints /\ c.light = light
        /\ c = [pivots |-> c.pivots, light |-> c.light, strip |-> c.strip]
    BY <1>5 DEF SetStatusStrip
  <1> HIDE DEF c
  <1>8. c.strip \in [emitted : Strips, surface : Strips \union {BLACK, "darkened"},
                     effect : Effects, since : Clock]
    BY <1>1, <1>6
  <1>9. c \in Lamps
    BY <1>1, <1>7, <1>8 DEF Lamps
  <1>10. Shows(c, look)
    BY <1>6, <1>7 DEF Shows, light
  <1> QED BY <1>3, <1>9, <1>10 DEF look

(* A frame changes neither what is shown nor the lamp's type.              *)
LEMMA UpdateIs ==
    ASSUME NEW lamp \in Lamps
    PROVE  /\ Update(lamp) \in Lamps /\ Picture(Update(lamp)) \in Seen
           /\ Update(lamp).pivots = lamp.pivots
           /\ \A look : Shows(lamp, look) => Shows(Update(lamp), look)
  <1> DEFINE u == Update(lamp)
  <1>1. /\ lamp.pivots \in Poses /\ lamp.light \in Lights
        /\ lamp.strip.emitted \in Strips /\ lamp.strip.effect \in Effects
        /\ lamp.strip.since \in Clock
        /\ DOMAIN lamp = {"pivots", "light", "strip"}
        /\ DOMAIN lamp.strip = {"emitted", "surface", "effect", "since"}
    BY DEF Lamps
  <1>2. \A t \in Clock : (IF t \in {Unclocked, LongSince} THEN LongSince ELSE t + 1)
                             \in Clock
    BY DEF Clock, Unclocked, LongSince
  <1>3. /\ u.pivots = lamp.pivots /\ u.light = lamp.light
        /\ u.strip.emitted = lamp.strip.emitted
        /\ u.strip.effect = lamp.strip.effect
        /\ u.strip.surface = Surface(lamp.strip.emitted)
        /\ u.strip.since = IF lamp.strip.since \in {Unclocked, LongSince}
                           THEN LongSince ELSE lamp.strip.since + 1
        /\ u = [pivots |-> u.pivots, light |-> u.light, strip |-> u.strip]
        /\ u.strip = [emitted |-> u.strip.emitted, surface |-> u.strip.surface,
                      effect |-> u.strip.effect, since |-> u.strip.since]
    <2> DEFINE ran == [lamp.strip EXCEPT
                         !.since = IF @ \in {Unclocked, LongSince} THEN LongSince
                                   ELSE @ + 1]
               strip == [ran EXCEPT !.surface = Surface(lamp.strip.emitted)]
    <2>1. /\ ran.emitted = lamp.strip.emitted /\ ran.effect = lamp.strip.effect
          /\ ran.since = IF lamp.strip.since \in {Unclocked, LongSince}
                         THEN LongSince ELSE lamp.strip.since + 1
          /\ DOMAIN ran = {"emitted", "surface", "effect", "since"}
      BY <1>1
    <2>2. u = [[lamp EXCEPT !.strip = ran] EXCEPT !.strip = strip]
      BY <1>1 DEF Update
    <2> HIDE DEF ran
    <2>3. /\ strip.emitted = ran.emitted /\ strip.effect = ran.effect
          /\ strip.since = ran.since
          /\ strip.surface = Surface(lamp.strip.emitted)
          /\ strip = [emitted |-> strip.emitted, surface |-> strip.surface,
                      effect |-> strip.effect, since |-> strip.since]
      BY <2>1
    <2> HIDE DEF strip
    <2> DEFINE v == [[lamp EXCEPT !.strip = ran] EXCEPT !.strip = strip]
    <2>4. /\ v.pivots = lamp.pivots /\ v.light = lamp.light /\ v.strip = strip
          /\ v = [pivots |-> v.pivots, light |-> v.light, strip |-> v.strip]
      <3> DEFINE w == [lamp EXCEPT !.strip = ran]
      <3>1. /\ w.pivots = lamp.pivots /\ w.light = lamp.light
            /\ DOMAIN w = {"pivots", "light", "strip"}
        BY <1>1
      <3>2. v = [w EXCEPT !.strip = strip]
        OBVIOUS
      <3> HIDE DEF w, v
      <3>3. v.pivots = w.pivots /\ v.light = w.light /\ v.strip = strip
        BY <3>1, <3>2
      <3>4. v = [pivots |-> v.pivots, light |-> v.light, strip |-> v.strip]
        BY <3>1, <3>2
      <3> QED BY <3>1, <3>3, <3>4
    <2> HIDE DEF u, v
    <2>5. u = v
      BY <2>2 DEF v
    <2> QED BY <2>1, <2>3, <2>4, <2>5
  <1> HIDE DEF u
  <1>4. u.strip.surface \in {BLACK, "darkened"} /\ u.strip.since \in Clock
    BY <1>1, <1>2, <1>3 DEF Surface
  <1>5. u.strip \in [emitted : Strips, surface : Strips \union {BLACK, "darkened"},
                     effect : Effects, since : Clock]
    BY <1>1, <1>3, <1>4
  <1>6. u \in Lamps
    BY <1>1, <1>3, <1>5 DEF Lamps
  <1>7. Picture(u) \in Seen
    BY <1>1, <1>3, <1>4 DEF Picture, Seen
  <1>8. \A look : Shows(lamp, look) => Shows(u, look)
    BY <1>3 DEF Shows
  <1> QED BY <1>3, <1>6, <1>7, <1>8 DEF u

-----------------------------------------------------------------------------
(* The invariant                                                           *)

(* What is claimed of the scene once the effects have run.                 *)
Faithful(l) ==
    /\ (l # None) = Wanted(shown)
    /\ l # None => l.key = shown.key
    /\ l # None /\ l.ready => /\ Shows(l.lamp, shown.look)
                              /\ l.note \in {None, shown.look.joints}

Typed(l) ==
    /\ l \in Scenes \union {None}
    /\ l # None /\ l.ready => l.lamp \in Lamps

Inv == TypeOK /\ NothingLeaks /\ SceneIsTrue

LEMMA WhatTypes ==
    /\ TypeOK => Typed(life) /\ build.diagnosed \in BOOLEAN
    /\ SceneIsTrue <=> (~due /\ ~crashed => Faithful(life))
  BY DEF TypeOK, Typed, SceneIsTrue, Faithful, Ready

LEMMA NowIs ==
    /\ DOMAIN Now = Fields /\ Now.life = life /\ Now.leaked = leaked
    /\ Now.cost = 0 /\ Now.cost \in Nat
  BY DEF Now, Fields

LEMMA NowIsClean ==
    ASSUME TypeOK, NothingLeaks
    PROVE  Clean(Now)
  <1>1. life # None => life.held \in Holdings
    <2>1. life # None => life \in Scenes
      BY DEF TypeOK
    <2> QED BY <2>1 DEF Scenes
  <1> QED BY <1>1, NowIs DEF Clean, NothingLeaks

LEMMA WantedIsGiven ==
    ASSUME TypeOK, Wanted(shown)
    PROVE  shown.look \in Given /\ shown.key \in 0 .. MaxEpoch
  BY DEF TypeOK, Wanted, Given, Pages

LEMMA ScenesAre ==
    ASSUME NEW l \in Scenes
    PROVE  /\ l # None /\ l.key \in 0 .. MaxEpoch /\ l.ready \in BOOLEAN
           /\ l.ticking \in BOOLEAN /\ l.lamp \in Lamps \union {None}
           /\ l.note \in Poses \union {None} /\ l.onto \in {"canvas", "mask"}
           /\ l.seen \in Seen \union {None} /\ l.held \in Holdings
           /\ DOMAIN l = {"key", "ready", "ticking", "lamp", "note", "onto", "seen",
                          "held"}
  BY NoSceneAssumption DEF Scenes

(* A scene that is mounted is the one that is wanted.                      *)
LEMMA MountedIs ==
    ASSUME TypeOK, Wanted(shown), NEW l \in {NewScene, Unavailable}
    PROVE  Typed(l) /\ Faithful(l)
  <1>1. shown.look \in Given /\ shown.key \in 0 .. MaxEpoch
    BY WantedIsGiven
  <1>2. Dressed(NewLamp) \in Lamps /\ Shows(Dressed(NewLamp), shown.look)
    BY <1>1, NewLampIs, DressedIs
  <1>3. shown.look.joints \in Poses
    BY <1>1, LooksAre
  <1> DEFINE dressed == Dressed(NewLamp)
             note == IF build.diagnosed THEN shown.look.joints ELSE None
             held == Acquired(build.diagnosed, Len(Order))
  <1>4. NewScene = [key |-> shown.key, ready |-> TRUE, ticking |-> TRUE,
                    lamp |-> dressed, note |-> note, onto |-> "canvas",
                    seen |-> None, held |-> held]
    BY DEF NewScene
  <1>5. note \in Poses \union {None} /\ note \in {None, shown.look.joints}
    BY <1>3
  <1>13. held \in Holdings
    BY WhatTypes DEF Holdings, Undrawn
  <1> HIDE DEF dressed, note, held
  <1>6. NewScene \in Scenes
    BY <1>1, <1>2, <1>4, <1>5, <1>13 DEF Scenes, dressed
  <1>7. /\ Unavailable \in Scenes /\ Unavailable.ready = FALSE
        /\ Unavailable.key = shown.key
    <2> DEFINE a == [NewScene EXCEPT !.ready = FALSE]
               b == [a EXCEPT !.ticking = FALSE]
               c == [b EXCEPT !.lamp = None]
               d == [c EXCEPT !.note = None]
               e == [d EXCEPT !.held = {}]
    <2>1. Unavailable = e
      BY DEF Unavailable
    <2> HIDE DEF e
    <2>2. a \in Scenes /\ a.ready = FALSE /\ a.key = shown.key
      BY <1>4, <1>6, ScenesAre DEF Scenes
    <2> HIDE DEF a
    <2>3. b \in Scenes /\ b.ready = FALSE /\ b.key = shown.key
      BY <2>2, ScenesAre DEF Scenes
    <2> HIDE DEF b
    <2>4. c \in Scenes /\ c.ready = FALSE /\ c.key = shown.key
      BY <2>3, ScenesAre DEF Scenes
    <2> HIDE DEF c
    <2>5. d \in Scenes /\ d.ready = FALSE /\ d.key = shown.key
      BY <2>4, ScenesAre DEF Scenes, d
    <2> HIDE DEF d
    <2>6. {} \in Holdings
      BY DEF Holdings, Undrawn
    <2>7. e \in Scenes /\ e.ready = FALSE /\ e.key = shown.key
      BY <2>5, <2>6, ScenesAre DEF Scenes, e
    <2> QED BY <2>1, <2>7
  <1>8. NewScene # None /\ Unavailable # None
    BY <1>6, <1>7, NoSceneAssumption
  <1>9. /\ NewScene.key = shown.key /\ NewScene.lamp = dressed
        /\ NewScene.note = note
    BY <1>4
  <1>10. Wanted(shown) = TRUE
    BY DEF Wanted
  <1>11. Typed(NewScene) /\ Faithful(NewScene)
    BY <1>2, <1>5, <1>6, <1>8, <1>9, <1>10 DEF Typed, Faithful, dressed
  <1>12. Typed(Unavailable) /\ Faithful(Unavailable)
    BY <1>7, <1>8, <1>10 DEF Typed, Faithful
  <1> QED BY <1>11, <1>12

(* What the effects of a render come to.                                   *)
LEMMA EffectsAre ==
    ASSUME TypeOK, NothingLeaks, NEW s \in AfterEffects
    PROVE  /\ Typed(s.life) /\ Faithful(s.life) /\ s.leaked \subseteq {"shadow"}
           /\ s.cost \in Nat
  <1>1. Typed(life) /\ build.diagnosed \in BOOLEAN
    BY WhatTypes
  <1>5. leaked \subseteq {"shadow"} /\ Clean(Now)
    BY NowIsClean DEF NothingLeaks
  <1>2. CASE Stays
    <2>1. /\ s \in Drawn /\ life \in Scenes /\ life.key = shown.key
          /\ Wanted(shown) /\ life # None
      BY <1>1, <1>2 DEF AfterEffects, Stays, Typed
    <2>2. CASE ~life.ready
      <3>1. s.life = life /\ s.leaked = leaked /\ s.cost \in Nat
        BY <2>1, <2>2, NowIs DEF Drawn
      <3>2. (life # None) = Wanted(shown)
        BY <2>1 DEF Wanted
      <3> QED BY <1>1, <1>5, <2>1, <2>2, <3>1, <3>2 DEF Faithful
    <2>3. CASE life.ready
      <3> DEFINE dressed == Dressed(life.lamp)
                 note == IF build.diagnosed THEN shown.look.joints ELSE None
                 l == [life EXCEPT !.lamp = dressed, !.note = note]
      <3>1. s.life = l /\ s.leaked = leaked /\ s.cost \in Nat
        <4>1. s = [Now EXCEPT !.life = l]
          BY <2>1, <2>3 DEF Drawn
        <4> HIDE DEF l
        <4> QED BY <4>1, NowIs DEF Fields
      <3>2. shown.look \in Given /\ life.lamp \in Lamps
        BY <1>1, <2>1, <2>3, WantedIsGiven DEF Typed
      <3>3. dressed \in Lamps /\ Shows(dressed, shown.look)
        BY <3>2, DressedIs
      <3>4. note \in Poses \union {None} /\ note \in {None, shown.look.joints}
        BY <3>2, LooksAre
      <3> HIDE DEF dressed, note
      <3>5. /\ l \in Scenes /\ l.key = life.key /\ l.ready = life.ready
            /\ l.lamp = dressed /\ l.note = note
        BY <2>1, <3>3, <3>4, ScenesAre DEF Scenes
      <3>6. l # None /\ (l # None) = Wanted(shown)
        BY <2>1, <3>5, NoSceneAssumption DEF Wanted
      <3> HIDE DEF l
      <3> QED BY <1>5, <2>1, <3>1, <3>3, <3>4, <3>5, <3>6 DEF Typed, Faithful
    <2> QED BY <2>2, <2>3
  <1>3. CASE ~Stays /\ Wanted(shown)
    <2>1. s \in Mounts
      BY <1>3 DEF AfterEffects
    <2>2. s.life \in {NewScene, Unavailable} /\ Clean(s)
      BY <1>1, <1>5, <2>1, MountsAre
    <2> QED BY <1>3, <2>2, MountedIs DEF Clean
  <1>4. CASE ~Stays /\ ~Wanted(shown)
    <2>1. s \in Closed(Now)
      BY <1>4 DEF AfterEffects
    <2>2. s.life = None /\ s.leaked \subseteq {"shadow"} /\ s.cost \in Nat
      BY <1>5, <2>1, ClosedIs DEF Clean
    <2>3. (None # None) = Wanted(shown)
      BY <1>4 DEF Wanted
    <2> QED BY <2>2, <2>3 DEF Typed, Faithful
  <1> QED BY <1>2, <1>3, <1>4

(* What a frame or a resize makes of a scene that is ready.                *)
Kept(l) ==
    /\ l \in Scenes /\ l.ready /\ l.key = life.key
    /\ l.lamp \in Lamps
    /\ \A look : Shows(life.lamp, look) => Shows(l.lamp, look)
    /\ l.note \in {None, life.note, life.lamp.pivots}
    /\ l.lamp.pivots = life.lamp.pivots

LEMMA MeasuredIs ==
    ASSUME TypeOK, Ready
    PROVE  Kept(life) /\ Kept(Measured(TRUE)) /\ Kept(Measured(FALSE))
           /\ Kept(OutOfSight)
  <1>1. /\ life \in Scenes /\ life.ready /\ life.lamp \in Lamps
        /\ life.lamp.pivots \in Poses
    BY DEF TypeOK, Ready, Lamps
  <1>2. ASSUME NEW onto \in {"canvas"}, NEW note \in {life.note, life.lamp.pivots, None}
        PROVE  /\ Kept([life EXCEPT !.onto = onto, !.note = note])
               /\ Kept([life EXCEPT !.note = note])
    <2>1. /\ [life EXCEPT !.onto = onto, !.note = note] \in Scenes
          /\ [life EXCEPT !.note = note] \in Scenes
      BY <1>1, ScenesAre DEF Scenes
    <2> QED BY <1>1, <2>1, ScenesAre DEF Kept
  <1>3. Kept(life)
    BY <1>1 DEF Kept
  <1>4. Kept(Measured(TRUE)) /\ Kept(Measured(FALSE))
    <2>1. /\ Measured(TRUE) = [life EXCEPT !.onto = "canvas",
                                           !.note = life.lamp.pivots]
          /\ Measured(FALSE) = [life EXCEPT !.onto = "canvas", !.note = life.note]
      BY DEF Measured, TargetAfter
    <2> QED BY <1>2, <2>1
  <1>5. Kept(OutOfSight)
    BY <1>2 DEF OutOfSight
  <1> QED BY <1>3, <1>4, <1>5

LEMMA PaintedIs ==
    ASSUME NEW l, Kept(l)
    PROVE  Kept(Painted(l))
  <1> DEFINE u == Update(l.lamp)
             seen == IF l.onto = "canvas" THEN Picture(u) ELSE l.seen
             held == WithShadow(l.held)
  <1>1. /\ u \in Lamps /\ u.pivots = l.lamp.pivots /\ Picture(u) \in Seen
        /\ \A look : Shows(l.lamp, look) => Shows(u, look)
    BY UpdateIs DEF Kept
  <1>2. l \in Scenes /\ seen \in Seen \union {None}
    BY <1>1, ScenesAre DEF Kept
  <1>3. Painted(l) = [l EXCEPT !.lamp = u, !.seen = seen, !.held = held]
    BY DEF Painted
  <1>6. held \in Holdings
    <2>1. PICK h \in Undrawn : l.held \in {h, WithShadow(h)}
      BY <1>2, ScenesAre DEF Holdings
    <2>2. held = WithShadow(h)
      BY <2>1 DEF WithShadow
    <2> QED BY <2>2 DEF Holdings
  <1> HIDE DEF u, seen, held
  <1> DEFINE p == [l EXCEPT !.lamp = u, !.seen = seen, !.held = held]
  <1>4. /\ p \in Scenes /\ p.ready = l.ready /\ p.key = l.key /\ p.lamp = u
        /\ p.note = l.note
    BY <1>1, <1>2, <1>6, ScenesAre DEF Scenes
  <1> HIDE DEF p
  <1>5. Kept(p)
    BY <1>1, <1>4 DEF Kept
  <1> QED BY <1>3, <1>5 DEF p

LEMMA FramesKeep ==
    ASSUME TypeOK, Frame \/ FrameFails \/ Resize
    PROVE  /\ Kept(life') /\ Ready /\ faults' \in 0 .. MaxFaults
           /\ UNCHANGED <<build, page, stirred, shown, due, leaked, refused, crashed>>
  <1>1. faults \in 0 .. MaxFaults
    BY DEF TypeOK
  <1>2. CASE Frame
    <2>1. Ready
      BY <1>2 DEF Frame
    <2>2. PICK l \in {life, Measured(TRUE), OutOfSight} : Changed(Painted(l), 0)
      BY <1>2 DEF Frame
    <2>3. Kept(Painted(l))
      BY <2>1, <2>2, MeasuredIs, PaintedIs
    <2> QED BY <1>1, <2>1, <2>2, <2>3 DEF Changed
  <1>3. CASE FrameFails
    <2> DEFINE l == [Measured(FALSE) EXCEPT !.ticking = FALSE]
    <2>1. Ready /\ faults < MaxFaults /\ Changed(l, 1)
      BY <1>3 DEF FrameFails
    <2>2. Kept(Measured(FALSE))
      BY <2>1, MeasuredIs
    <2> DEFINE m == Measured(FALSE)
    <2>3. m \in Scenes /\ Kept(m)
      BY <2>2 DEF Kept
    <2> HIDE DEF m
    <2>4. [m EXCEPT !.ticking = FALSE] \in Scenes
      BY <2>3, ScenesAre DEF Scenes
    <2>5. Kept([m EXCEPT !.ticking = FALSE])
      BY <2>3, <2>4, ScenesAre DEF Kept
    <2>6. Kept(l)
      BY <2>5 DEF m
    <2> HIDE DEF l
    <2>7. faults + 1 \in 0 .. MaxFaults
      BY <1>1, <2>1, SceneAssumption
    <2> QED BY <2>1, <2>6, <2>7 DEF Changed
  <1>4. CASE Resize
    <2>1. Ready
      BY <1>4 DEF Resize
    <2>2. PICK l \in {Measured(TRUE), OutOfSight, Measured(FALSE)}, n \in {0, 1} :
              Changed(l, n) /\ (n = 0 \/ faults < MaxFaults)
      BY <1>4 DEF Resize
    <2>3. Kept(l)
      BY <2>1, <2>2, MeasuredIs
    <2>4. faults + n \in 0 .. MaxFaults
      BY <1>1, <2>2, SceneAssumption
    <2> QED BY <2>1, <2>2, <2>3, <2>4 DEF Changed
  <1> QED BY <1>2, <1>3, <1>4

LEMMA InvInit == Init => Inv
  <1> SUFFICES ASSUME Init PROVE Inv
    OBVIOUS
  <1>1. /\ build \in [strict : BOOLEAN, diagnosed : BOOLEAN]
        /\ page = [tab |-> TRUE, key |-> 0, look |-> None] /\ shown = page
        /\ life = None /\ leaked = {} /\ faults = 0
        /\ stirred = FALSE /\ due = FALSE /\ refused = FALSE /\ crashed = FALSE
    BY DEF Init
  <1>2. page \in Pages
    BY <1>1, SceneAssumption DEF Pages
  <1>3. ~Wanted(shown)
    BY <1>1 DEF Wanted
  <1>4. SceneIsTrue
    BY <1>1, <1>3 DEF SceneIsTrue, Ready, Wanted
  <1>5. TypeOK
    <2>1. {stirred, due, refused, crashed} \subseteq BOOLEAN
      BY <1>1
    <2>2. faults \in 0 .. MaxFaults
      BY <1>1, SceneAssumption
    <2>3. ~Ready /\ life \in Scenes \union {None}
      BY <1>1 DEF Ready
    <2> QED BY <1>1, <1>2, <2>1, <2>2, <2>3 DEF TypeOK
  <1> QED BY <1>1, <1>4, <1>5 DEF Inv, NothingLeaks

(* What asks for something else to be drawn.                               *)
LEMMA AskedKeeps ==
    ASSUME Inv, Hear \/ SelectTarget \/ OpenWorkspace
    PROVE  Inv'
  <1>1. /\ page \in Pages /\ TypeOK /\ refused \in BOOLEAN
    BY DEF Inv, TypeOK
  <1>2. Brought \subseteq Looks
    BY DEF Brought, Looks
  <1>3. PICK p \in Pages : Asked(p)
    <2>1. CASE Hear
      <3>1. PICK look \in Looks : Asked([page EXCEPT !.look = look])
        BY <1>2, <2>1 DEF Hear
      <3>2. [page EXCEPT !.look = look] \in Pages
        BY <1>1 DEF Pages
      <3> QED BY <3>1, <3>2
    <2>2. CASE SelectTarget
      <3>1. PICK look \in Looks :
                page.key < MaxEpoch
                /\ Asked([page EXCEPT !.key = @ + 1, !.look = look])
        BY <1>2, <2>2 DEF SelectTarget
      <3>2. [page EXCEPT !.key = @ + 1, !.look = look] \in Pages
        <4>1. page.key + 1 \in 0 .. MaxEpoch
          BY <1>1, <3>1, SceneAssumption DEF Pages
        <4>2. /\ DOMAIN page = {"tab", "key", "look"} /\ page.tab \in BOOLEAN
          BY <1>1 DEF Pages
        <4> QED BY <4>1, <4>2 DEF Pages
      <3> QED BY <3>1, <3>2
    <2>3. CASE OpenWorkspace
      <3>1. Asked([page EXCEPT !.tab = ~@])
        BY <2>3 DEF OpenWorkspace
      <3>2. [page EXCEPT !.tab = ~@] \in Pages
        BY <1>1 DEF Pages
      <3> QED BY <3>1, <3>2
    <2> QED BY <2>1, <2>2, <2>3
  <1>4. /\ page' = p /\ stirred' = TRUE
        /\ UNCHANGED <<build, shown, due, life, leaked, crashed, faults>>
    BY <1>3 DEF Asked
  <1>5. refused' \in BOOLEAN
    BY <1>1 DEF Hear, SelectTarget, OpenWorkspace
  <1>6. TypeOK'
    BY <1>1, <1>3, <1>4, <1>5 DEF TypeOK, Ready
  <1>7. SceneIsTrue' /\ NothingLeaks'
    BY <1>4 DEF Inv, SceneIsTrue, NothingLeaks, Ready
  <1> QED BY <1>6, <1>7 DEF Inv

LEMMA FlushKeeps ==
    ASSUME Inv, Flush \/ Crash
    PROVE  Inv'
  <1>1. /\ TypeOK /\ NothingLeaks /\ faults \in 0 .. MaxFaults
        /\ build.diagnosed \in BOOLEAN
    BY WhatTypes DEF Inv, TypeOK
  <1>6. \A l : l \subseteq {"shadow"} => l \subseteq Resources \union Created
    BY DEF Resources, WithShadow
  <1>2. UNCHANGED <<build, page, stirred, shown, refused>> /\ due' = FALSE
    BY DEF Flush, Crash
  <1>3. ASSUME NEW cost \in Nat, faults + cost <= MaxFaults,
               faults' = faults + cost
        PROVE  faults' \in 0 .. MaxFaults
    BY <1>1, <1>3, SceneAssumption
  <1>4. CASE Flush
    <2>1. PICK s \in AfterEffects :
            /\ life' = s.life /\ leaked' = s.leaked
            /\ faults + s.cost <= MaxFaults /\ faults' = faults + s.cost
      BY <1>4 DEF Flush
    <2>2. /\ Typed(life') /\ Faithful(life')
          /\ leaked' \subseteq {"shadow"}
          /\ s.cost \in Nat /\ crashed' = crashed
      BY <1>1, <1>4, <2>1, EffectsAre DEF Flush
    <2>3. faults' \in 0 .. MaxFaults
      BY <1>3, <2>1, <2>2
    <2>4. TypeOK'
      BY <1>1, <1>2, <1>6, <2>2, <2>3 DEF TypeOK, Typed, Ready
    <2>5. SceneIsTrue'
      BY <1>2, <2>2 DEF Faithful, SceneIsTrue, Ready, Wanted
    <2> QED BY <2>2, <2>4, <2>5 DEF Inv, NothingLeaks
  <1>5. CASE Crash
    <2> DEFINE from(x) == [x EXCEPT !.cost = @ + 1]
    <2>1. PICK x \in Measuring :
            \E s \in Closed(from(x)) :
                /\ leaked' = s.leaked
                /\ faults + s.cost <= MaxFaults /\ faults' = faults + s.cost
      BY <1>5 DEF Crash
    <2>2. Clean(x)
      BY <1>1, NowIsClean, MountsAre DEF Measuring
    <2>3. Clean(from(x))
      <3> DEFINE y == from(x)
      <3>1. /\ y.leaked = x.leaked /\ y.cost = x.cost + 1
            /\ y.life = x.life /\ DOMAIN y = Fields
        BY <2>2 DEF Clean, Fields
      <3> HIDE DEF from
      <3> QED BY <2>2, <3>1 DEF Clean
    <2> HIDE DEF from
    <2>4. PICK s \in Closed(from(x)) :
            /\ leaked' = s.leaked
            /\ faults + s.cost <= MaxFaults /\ faults' = faults + s.cost
      BY <2>1
    <2>5. s.leaked \subseteq {"shadow"} /\ s.cost \in Nat
      BY <2>3, <2>4, ClosedIs DEF Clean
    <2>6. faults' \in 0 .. MaxFaults
      BY <1>3, <2>4, <2>5
    <2>7. life' = None /\ crashed' = TRUE /\ leaked' \subseteq {"shadow"}
      BY <1>5, <2>4, <2>5 DEF Crash
    <2>8. TypeOK'
      BY <1>1, <1>2, <1>6, <2>6, <2>7 DEF TypeOK, Ready
    <2> QED BY <2>7, <2>8 DEF Inv, NothingLeaks, SceneIsTrue
  <1> QED BY <1>4, <1>5

LEMMA FramesKeepInv ==
    ASSUME Inv, Frame \/ FrameFails \/ Resize
    PROVE  Inv'
  <1>1. /\ Kept(life') /\ Ready /\ faults' \in 0 .. MaxFaults
        /\ UNCHANGED <<build, page, stirred, shown, due, leaked, refused, crashed>>
        /\ TypeOK /\ NothingLeaks
    BY FramesKeep DEF Inv
  <1>2. life' \in Scenes /\ life' # None /\ life'.ready /\ life'.lamp \in Lamps
    BY <1>1, NoSceneAssumption DEF Kept
  <1>3. TypeOK'
    BY <1>1, <1>2 DEF TypeOK, Ready
  <1>4. ASSUME ~due, ~crashed PROVE Faithful(life')
    <2>1. Faithful(life)
      BY <1>4, WhatTypes DEF Inv
    <2>2. /\ life # None /\ Wanted(shown) /\ life.key = shown.key
          /\ Shows(life.lamp, shown.look)
          /\ life.note \in {None, shown.look.joints}
      BY <1>1, <2>1 DEF Faithful, Ready
    <2>3. life.lamp.pivots = shown.look.joints
      BY <2>2 DEF Shows
    <2>4. (life' # None) = Wanted(shown)
      BY <1>2, <2>2 DEF Wanted
    <2>5. /\ life'.key = shown.key /\ Shows(life'.lamp, shown.look)
          /\ life'.note \in {None, shown.look.joints}
      BY <1>1, <2>2, <2>3 DEF Kept
    <2> QED BY <2>4, <2>5 DEF Faithful
  <1>5. SceneIsTrue'
    BY <1>1, <1>4 DEF SceneIsTrue, Faithful, Ready, Wanted
  <1> QED BY <1>1, <1>3, <1>5 DEF Inv, NothingLeaks

LEMMA InvStep == Inv /\ [Next]_vars => Inv'
  <1> SUFFICES ASSUME Inv, [Next]_vars PROVE Inv'
    OBVIOUS
  <1>1. CASE Render
    <2>1. /\ stirred' = FALSE /\ shown' = page /\ due' = TRUE
          /\ UNCHANGED <<build, page, life, leaked, refused, crashed, faults>>
      BY <1>1 DEF Render
    <2> QED BY <2>1 DEF Inv, TypeOK, NothingLeaks, SceneIsTrue, Ready
  <1>2. CASE UNCHANGED vars
    BY <1>2 DEF vars, Inv, TypeOK, NothingLeaks, SceneIsTrue, Ready, Wanted
  <1> QED BY <1>1, <1>2, AskedKeeps, FlushKeeps, FramesKeepInv DEF Next

(* The types, and what is claimed of scenes gone and scenes drawn, hold    *)
(* together: effects keep the second only for a page of the right type.    *)
THEOREM Invariance == Spec => []Inv
  BY InvInit, InvStep, PTL DEF Spec

(* Every variable of the page and of the scene keeps its type, whatever    *)
(* comes, fails or throws, for any number of targets and of failures.      *)
THEOREM TypeCorrect == Spec => []TypeOK
  BY Invariance, PTL DEF Inv

(* Whatever step of opening a scene fails and whatever release throws,     *)
(* nothing is left but what threw and the shadow map of the light: cleanup *)
(* has an attempt for all that was acquired, in what was acquired by then  *)
(* the attempt's condition is met, each is an attempt of its own, and the  *)
(* robot's dispose meets every mesh.                                       *)
THEOREM ScenesLeaveNothing == Spec => []NothingLeaks
  BY Invariance, PTL DEF Inv

(* Once the effects of a render have run there is a scene exactly when one *)
(* is wanted, of the target shown, and its robot has the pose and lights   *)
(* of the state shown, through frames, resizes and failures.               *)
THEOREM SceneIsOfStateShown == Spec => []SceneIsTrue
  BY Invariance, PTL DEF Inv

-----------------------------------------------------------------------------
(* What one side accepts, the other reads                                  *)

(* JSON                                                                    *)
(* A set of JSON values, closed under taking fields and elements.          *)
Kinds(v, V) ==
      \/ v = Null
      \/ v = Str(v.str)
      \/ /\ v = [num |-> v.num, dot |-> v.dot]
         /\ v.num \in Int /\ v.dot \in BOOLEAN /\ (v.dot \/ v.num % 2 = 0)
      \/ v = Bool(v.bool) /\ v.bool \in BOOLEAN
      \/ v = Obj(v.obj) /\ \A f \in DOMAIN v.obj : v.obj[f] \in V
      \/ v = Arr(v.arr) /\ v.arr \in Seq(V)

SelfContained(V) == \A v \in V : Kinds(v, V)

IsJson(v) == \E V : SelfContained(V) /\ v \in V

JsonFields(p) == \A f \in DOMAIN p : IsJson(p[f])

LEMMA KindsAre ==
    ASSUME NEW v, IsJson(v)
    PROVE  /\ IsStr(v) => v = Str(v.str)
           /\ IsNum(v) => /\ v = [num |-> v.num, dot |-> v.dot] /\ v.num \in Int
                          /\ v.dot \in BOOLEAN /\ (~v.dot => v.num % 2 = 0)
           /\ IsBool(v) => v = Bool(v.bool) /\ v.bool \in BOOLEAN
           /\ IsObj(v) => v = Obj(v.obj) /\ JsonFields(v.obj)
           /\ IsArr(v) => /\ v = Arr(v.arr) /\ DOMAIN v.arr = 1 .. Len(v.arr)
                          /\ Len(v.arr) \in Nat
                          /\ \A i \in DOMAIN v.arr : IsJson(v.arr[i])
  <1>1. PICK V : SelfContained(V) /\ v \in V
    BY DEF IsJson
  <1>2. \A x \in V : IsJson(x)
    BY <1>1 DEF IsJson
  <1>3. CASE v = Null
    BY <1>3 DEF Null, IsStr, IsNum, IsBool, IsObj, IsArr
  <1>4. CASE v = Str(v.str)
    BY <1>4 DEF Str, IsStr, IsNum, IsBool, IsObj, IsArr
  <1>5. CASE /\ v = [num |-> v.num, dot |-> v.dot]
             /\ v.num \in Int /\ v.dot \in BOOLEAN /\ (v.dot \/ v.num % 2 = 0)
    BY <1>5 DEF IsStr, IsNum, IsBool, IsObj, IsArr
  <1>6. CASE v = Bool(v.bool) /\ v.bool \in BOOLEAN
    BY <1>6 DEF Bool, IsStr, IsNum, IsBool, IsObj, IsArr
  <1>7. CASE v = Obj(v.obj) /\ \A f \in DOMAIN v.obj : v.obj[f] \in V
    BY <1>2, <1>7 DEF Obj, IsStr, IsNum, IsBool, IsObj, IsArr, JsonFields
  <1>8. CASE v = Arr(v.arr) /\ v.arr \in Seq(V)
    <2>1. /\ DOMAIN v.arr = 1 .. Len(v.arr) /\ Len(v.arr) \in Nat
          /\ \A i \in DOMAIN v.arr : IsJson(v.arr[i])
      BY <1>2, <1>8
    <2> QED BY <1>8, <2>1 DEF Arr, IsStr, IsNum, IsBool, IsObj, IsArr
  <1> QED BY <1>1, <1>3, <1>4, <1>5, <1>6, <1>7, <1>8 DEF SelfContained, Kinds

LEMMA LeavesAreJson ==
    /\ IsJson(Null)
    /\ \A s : IsJson(Str(s))
    /\ \A n \in Int : IsJson(Whole(n)) /\ IsJson(Halves(n)) /\ IsJson(Number(n))
    /\ \A b \in BOOLEAN : IsJson(Bool(b))
  <1>1. IsJson(Null)
    <2>1. SelfContained({Null})
      BY DEF SelfContained, Kinds
    <2> QED BY <2>1 DEF IsJson
  <1>2. ASSUME NEW s PROVE IsJson(Str(s))
    <2>1. SelfContained({Str(s)})
      BY DEF SelfContained, Kinds, Str
    <2> QED BY <2>1 DEF IsJson
  <1>3. ASSUME NEW n \in Int, NEW dot \in BOOLEAN, dot \/ n % 2 = 0
        PROVE  IsJson([num |-> n, dot |-> dot])
    <2>1. SelfContained({[num |-> n, dot |-> dot]})
      BY <1>3 DEF SelfContained, Kinds
    <2> QED BY <2>1 DEF IsJson
  <1>4. ASSUME NEW n \in Int
        PROVE  IsJson(Whole(n)) /\ IsJson(Halves(n)) /\ IsJson(Number(n))
    <2>1. 2 * n \in Int /\ (2 * n) % 2 = 0
      OBVIOUS
    <2>2. IsJson(Whole(n))
      BY <1>3, <2>1 DEF Whole
    <2>3. IsJson(Halves(n))
      BY <1>3 DEF Halves
    <2>4. IsJson(Number(n))
      <3> DEFINE dot == n % 2 # 0 \/ n >= Exponent
      <3>1. dot \in BOOLEAN /\ (dot \/ n % 2 = 0)
        OBVIOUS
      <3> QED BY <1>3, <3>1 DEF Number
    <2> QED BY <2>2, <2>3, <2>4
  <1>5. ASSUME NEW b \in BOOLEAN PROVE IsJson(Bool(b))
    <2>1. SelfContained({Bool(b)})
      BY DEF SelfContained, Kinds, Bool
    <2> QED BY <2>1 DEF IsJson
  <1> QED BY <1>1, <1>2, <1>4, <1>5

(* What holds every value of p's fields in a closed set.                   *)
LEMMA ManyAreClosed ==
    ASSUME NEW S, \A x \in S : IsJson(x)
    PROVE  \E V : SelfContained(V) /\ S \subseteq V
  <1> DEFINE W(x) == CHOOSE V : SelfContained(V) /\ x \in V
             V == UNION {W(x) : x \in S}
  <1>1. \A x \in S : SelfContained(W(x)) /\ x \in W(x)
    BY DEF IsJson
  <1> HIDE DEF W
  <1>2. S \subseteq V
    BY <1>1
  <1>3. \A x \in S : W(x) \subseteq V
    OBVIOUS
  <1>4. SelfContained(V)
    <2> SUFFICES ASSUME NEW v \in V
                 PROVE  Kinds(v, V)
      BY DEF SelfContained, Kinds
    <2>1. PICK x \in S : v \in W(x)
      OBVIOUS
    <2>2. Kinds(v, W(x))
      BY <1>1, <2>1 DEF SelfContained, Kinds
    <2>3. ASSUME NEW s \in Seq(W(x)) PROVE s \in Seq(V)
      BY <1>3
    <2> HIDE DEF V
    <2> QED BY <1>3, <2>2, <2>3 DEF Kinds
  <1> QED BY <1>2, <1>4

LEMMA ObjectsAreJson ==
    ASSUME NEW p, JsonFields(p)
    PROVE  IsJson(Obj(p))
  <1> DEFINE S == {p[f] : f \in DOMAIN p}
  <1>a. \A x \in S : IsJson(x)
    BY DEF JsonFields
  <1>b. \E V : SelfContained(V) /\ S \subseteq V
    <2> HIDE DEF S
    <2> QED BY <1>a, ManyAreClosed
  <1>1. PICK V : SelfContained(V) /\ S \subseteq V
    BY <1>b
  <1> DEFINE U == V \union {Obj(p)}
  <1>2. \A s \in Seq(V) : s \in Seq(U)
    OBVIOUS
  <1>3. Kinds(Obj(p), U)
    BY <1>1 DEF Kinds, Obj
  <1>4. \A v \in V : Kinds(v, U)
    BY <1>1, <1>2 DEF Kinds, SelfContained
  <1> QED BY <1>3, <1>4 DEF SelfContained, IsJson

LEMMA ArraysAreJson ==
    ASSUME NEW S, \A x \in S : IsJson(x), NEW s \in Seq(S)
    PROVE  IsJson(Arr(s))
  <1>1. PICK V : SelfContained(V) /\ S \subseteq V
    BY ManyAreClosed
  <1> DEFINE U == V \union {Arr(s)}
  <1>2. \A t \in Seq(V) : t \in Seq(U)
    OBVIOUS
  <1>3. s \in Seq(U)
    BY <1>1
  <1>4. Kinds(Arr(s), U)
    BY <1>3 DEF Kinds, Arr
  <1>5. \A v \in V : Kinds(v, U)
    BY <1>1, <1>2 DEF Kinds, SelfContained
  <1> QED BY <1>4, <1>5 DEF SelfContained, IsJson

-----------------------------------------------------------------------------
LEMMA FormatsAgree ==
    /\ Version = {"1"} /\ Uuid = UUID /\ DeviceId = DEVICE_ID
    /\ TIMESTAMP = Timestamp \ {"wide"}
    /\ ActionId = ACTION_ID /\ Color = COLOR /\ Extension = EXTENSION
    /\ CommandTypes = COMMAND_TYPES /\ EventTypes = EVENT_TYPES
    /\ MessageType = MESSAGE_TYPE
    /\ StatusModes = STATUS_MODES /\ StatusEffects = STATUS_EFFECTS
  BY DEF Version, Uuid, UUID, Timestamp, TIMESTAMP, DeviceId, DEVICE_ID,
         ActionId, ACTION_ID, Color, COLOR, Extension, EXTENSION,
         CommandTypes, COMMAND_TYPES, EventTypes, EVENT_TYPES,
         MessageType, MESSAGE_TYPE, StatusModes, STATUS_MODES,
         StatusEffects, STATUS_EFFECTS

LEMMA FieldsAgree ==
    ASSUME NEW v
    PROVE  /\ \A format : PyMatch(v, format) = Matches(v, format)
           /\ \A choices : PyEnum(v, choices) = OneOf(v, choices)
           /\ PyText(v) = NonEmpty(v)
           /\ \A min, max : PyNumberRange(v, min, max) = Between(v, min, max)
           /\ \A required : PyFields(v, required) = Exactly(v, required)
           /\ \A required, optional :
                 PyKeys(v, required, optional) = Keys(v, required, optional)
           /\ PyColors(v) = Colors(v)
           /\ PyJointNumbers(v) = JointNumbers(v, FALSE)
  <1>1. \A p, required, optional :
           PyKeys(p, required, optional) = Keys(p, required, optional)
    BY DEF PyKeys, Keys
  <1>2. \A required : PyFields(v, required) = Exactly(v, required)
    BY <1>1 DEF PyFields, Exactly
  <1>3. PyColors(v) = Colors(v)
    BY FormatsAgree DEF PyColors, Colors, PyMatch, Matches
  <1>4. PyJointNumbers(v) = JointNumbers(v, FALSE)
    BY FormatsAgree DEF PyJointNumbers, JointNumbers
  <1>5. PyText(v) = NonEmpty(v)
    BY DEF PyText, NonEmpty
  <1> QED
    BY <1>1, <1>2, <1>3, <1>4, <1>5
    DEF PyMatch, Matches, PyEnum, OneOf, PyNumberRange, Between

LEMMA IntegersAgree ==
    ASSUME NEW v, IsJson(v), NEW min, PyInteger(v, min)
    PROVE  Integer(v, min) /\ v.num \in Int
  BY KindsAre DEF PyInteger, Integer

LEMMA OneOfIs ==
    ASSUME NEW v, IsJson(v), NEW choices, OneOf(v, choices)
    PROVE  v = Str(v.str) /\ v.str \in choices
  BY KindsAre DEF OneOf

LEMMA ExtensionsAgree ==
    ASSUME NEW p, ~NullExtensions(p), PyExtensions(p)
    PROVE  ValidExtensions(p)
  BY FormatsAgree DEF NullExtensions, PyExtensions, ValidExtensions

LEMMA DistinctAreCounted ==
    ASSUME NEW n \in Nat, NEW f, DOMAIN f = 1 .. n,
           \A i, j \in 1 .. n : f[i] = f[j] => i = j
    PROVE  Cardinality({f[i] : i \in DOMAIN f}) = n
  <1> DEFINE T == {f[i] : i \in 1 .. n}
             g == [i \in 1 .. n |-> f[i]]
  <1>1. g \in Bijection(1 .. n, T)
    BY DEF Bijection, Injection, Surjection, IsInjective
  <1>2. ExistsBijection(1 .. n, T)
    BY <1>1 DEF ExistsBijection
  <1> HIDE DEF T
  <1>3. Cardinality(T) = n
    BY <1>2, FS_CountingElements
  <1> QED BY <1>3 DEF T

LEMMA UniqueTextsAgree ==
    ASSUME NEW v, IsJson(v), NEW format, PyUniqueTexts(v, format)
    PROVE  IsArr(v) /\ UniqueMatches(v.arr, format)
  <1>1. /\ IsArr(v) /\ Len(v.arr) \in Nat /\ DOMAIN v.arr = 1 .. Len(v.arr)
    BY KindsAre DEF PyUniqueTexts
  <1>2. \A i, j \in DOMAIN v.arr : v.arr[i] = v.arr[j] => i = j
    BY DEF PyUniqueTexts, PyUnique
  <1>3. Cardinality(ToSet(v.arr)) = Len(v.arr)
    BY <1>1, <1>2, DistinctAreCounted DEF ToSet
  <1> QED BY <1>1, <1>3, FieldsAgree DEF PyUniqueTexts, UniqueMatches

LEMMA ErrorsAgree ==
    ASSUME NEW v, PyError(v)
    PROVE  IsProtocolError(v)
  BY FieldsAgree, FormatsAgree DEF PyError, IsProtocolError

-----------------------------------------------------------------------------
LEMMA PresetsAgree ==
    ASSUME NEW v, PyPreset(v)
    PROVE  IsPreset(v)
  BY FieldsAgree, FormatsAgree DEF PyPreset, IsPreset

LEMMA LightsAgree ==
    ASSUME NEW v, IsJson(v), PyLight(v)
    PROVE  /\ IsLight(v)
           /\ v.obj["width"].num \in Int /\ v.obj["height"].num \in Int
  <1>1. /\ Exactly(v, {"target", "kind", "width", "height"})
        /\ Matches(v.obj["target"], ACTION_ID)
        /\ OneOf(v.obj["kind"], {"rgb_matrix"})
        /\ PyInteger(v.obj["width"], 1) /\ PyInteger(v.obj["height"], 1)
    BY FieldsAgree, FormatsAgree DEF PyLight
  <1>2. \A f \in {"kind", "width", "height"} : IsJson(v.obj[f])
    BY <1>1, KindsAre DEF Exactly, Keys, JsonFields
  <1>3. v.obj["kind"] = Str("rgb_matrix")
    BY <1>1, <1>2, OneOfIs
  <1> QED BY <1>1, <1>2, <1>3, IntegersAgree DEF IsLight

(* A field of an object is JSON.                                           *)
LEMMA PartsAreJson ==
    ASSUME NEW v, IsJson(v), NEW S, NEW T
    PROVE  /\ Exactly(v, S) => \A f \in S : IsJson(v.obj[f])
           /\ IsObj(v) /\ Keys(v.obj, S, T) => \A f \in S : IsJson(v.obj[f])
           /\ IsArr(v) => \A i \in DOMAIN v.arr : IsJson(v.arr[i])
  BY KindsAre, Zenon DEF Exactly, Keys, JsonFields

LEMMA CapabilitiesAgree ==
    ASSUME NEW v, IsJson(v), PyCapabilities(v)
    PROVE  /\ IsCapabilities(v)
           /\ \A i \in DOMAIN v.obj["lights"].arr :
                /\ v.obj["lights"].arr[i].obj["width"].num \in Int
                /\ v.obj["lights"].arr[i].obj["height"].num \in Int
           /\ IsJson(v.obj["motion"].obj["joints"])
           /\ PyUniqueTexts(v.obj["motion"].obj["joints"], ActionId)
  <1> DEFINE commands == v.obj["commands"]
             events == v.obj["events"]
             motion == v.obj["motion"]
             lights == v.obj["lights"]
             joints == motion.obj["joints"]
             presets == motion.obj["presets"]
  <1>1. Exactly(v, {"commands", "events", "motion", "lights"})
    BY FieldsAgree DEF PyCapabilities
  <1>2. IsJson(commands) /\ IsJson(events) /\ IsJson(motion) /\ IsJson(lights)
    BY <1>1, PartsAreJson
  <1>3. PyMotionCapability(motion)
    BY DEF PyCapabilities
  <1>4. Exactly(motion, {"joints", "presets"})
    BY <1>3, FieldsAgree DEF PyMotionCapability
  <1>5. IsJson(joints) /\ IsJson(presets)
    <2>1. \A f \in {"joints", "presets"} : IsJson(motion.obj[f])
      BY <1>2, <1>4, PartsAreJson, Zenon
    <2> QED BY <2>1, Zenon
  <1>6. /\ PyUniqueTexts(joints, ActionId) /\ IsArr(presets)
        /\ \A i \in DOMAIN presets.arr : PyPreset(presets.arr[i])
        /\ \A i, j \in DOMAIN presets.arr :
             presets.arr[i].obj["name"] = presets.arr[j].obj["name"] => i = j
    BY <1>3, Zenon DEF PyMotionCapability, PyUnique
  <1>7. /\ IsObj(commands) /\ PyUniqueTexts(events, MessageType) /\ IsArr(lights)
        /\ \A i \in DOMAIN lights.arr : PyLight(lights.arr[i])
        /\ \A name \in DOMAIN commands.obj :
            /\ name \in MessageType /\ PyFields(commands.obj[name], {"scope"})
            /\ PyEnum(commands.obj[name].obj["scope"], {"control", "system"})
    BY Zenon DEF PyCapabilities
  <1>8. /\ IsArr(events) /\ UniqueMatches(events.arr, MESSAGE_TYPE)
        /\ IsArr(joints) /\ UniqueMatches(joints.arr, ACTION_ID)
    BY <1>2, <1>5, <1>6, <1>7, UniqueTextsAgree, FormatsAgree, Zenon
  <1>9. \A i \in DOMAIN lights.arr :
           /\ IsLight(lights.arr[i])
           /\ lights.arr[i].obj["width"].num \in Int
           /\ lights.arr[i].obj["height"].num \in Int
    BY <1>2, <1>7, PartsAreJson, LightsAgree
  <1>10. \A name \in DOMAIN commands.obj :
            /\ name \in MESSAGE_TYPE /\ Exactly(commands.obj[name], {"scope"})
            /\ OneOf(commands.obj[name].obj["scope"], {"control", "system"})
    BY <1>7, FieldsAgree, FormatsAgree
  <1>11. \A i \in DOMAIN presets.arr : IsPreset(presets.arr[i])
    BY <1>6, PresetsAgree
  <1>12. Cardinality({x.obj["name"] : x \in ToSet(presets.arr)}) = Len(presets.arr)
    <2>1. Len(presets.arr) \in Nat /\ DOMAIN presets.arr = 1 .. Len(presets.arr)
      BY <1>5, <1>6, KindsAre, Zenon
    <2> DEFINE n == Len(presets.arr)
               f == [i \in 1 .. n |-> presets.arr[i].obj["name"]]
    <2>2. {x.obj["name"] : x \in ToSet(presets.arr)} = {f[i] : i \in DOMAIN f}
      BY <2>1, Zenon DEF ToSet
    <2>3. \A i, j \in 1 .. n : f[i] = f[j] => i = j
      BY <1>6, <2>1, Zenon
    <2>4. n \in Nat /\ DOMAIN f = 1 .. n
      BY <2>1
    <2> HIDE DEF f, n
    <2>5. Cardinality({f[i] : i \in DOMAIN f}) = n
      BY <2>3, <2>4, DistinctAreCounted
    <2> QED BY <2>2, <2>5 DEF n
  <1>13. IsCapabilities(v)
    <2>1. /\ IsObj(commands) /\ IsArr(events) /\ IsArr(lights)
          /\ IsArr(joints) /\ IsArr(presets)
      BY <1>6, <1>7, <1>8, Zenon
    <2>2. \A i \in DOMAIN lights.arr : IsLight(lights.arr[i])
      BY <1>9
    <2>3. /\ UniqueMatches(events.arr, MESSAGE_TYPE)
          /\ UniqueMatches(joints.arr, ACTION_ID)
      BY <1>8
    <2> QED
      BY <1>1, <1>4, <2>1, <2>2, <2>3, <1>10, <1>11, <1>12, Zenon DEF IsCapabilities
  <1> QED BY <1>5, <1>6, <1>9, <1>13, Zenon

LEMMA JointsAgree ==
    ASSUME NEW v, PyJoint(v)
    PROVE  /\ Exactly(v, {"pos", "min", "max"})
           /\ \A f \in {"pos", "min", "max"} : IsNum(v.obj[f])
           /\ v.obj["min"].num <= v.obj["pos"].num
           /\ v.obj["pos"].num <= v.obj["max"].num
  BY FieldsAgree DEF PyJoint

LEMMA MotionStatesAgree ==
    ASSUME NEW v, IsJson(v), NEW caps, IsJson(caps), PyUniqueTexts(caps, ActionId),
           PyMotionState(v, {x.str : x \in ToSet(caps.arr)})
    PROVE  IsMotionState(v, caps.arr)
  <1> DEFINE names == {x.str : x \in ToSet(caps.arr)}
             joints == v.obj["joints"]
             n == Len(caps.arr)
             f == [i \in 1 .. n |-> caps.arr[i].str]
  <1>1. /\ Exactly(v, {"state", "action", "joints"})
        /\ OneOf(v.obj["state"], {"idle", "moving", "error"})
        /\ IsObj(joints) /\ DOMAIN joints.obj = names
        /\ \A name \in names : PyJoint(joints.obj[name])
    BY FieldsAgree DEF PyMotionState
  <1>2. IsJson(v.obj["state"])
    BY <1>1, PartsAreJson
  <1>3. /\ IsArr(caps) /\ n \in Nat /\ DOMAIN caps.arr = 1 .. n
        /\ \A i \in 1 .. n : caps.arr[i] = Str(caps.arr[i].str)
        /\ \A i, j \in 1 .. n : caps.arr[i] = caps.arr[j] => i = j
    <2>1. IsArr(caps) /\ n \in Nat /\ DOMAIN caps.arr = 1 .. n
      BY KindsAre DEF PyUniqueTexts
    <2>2. \A i \in 1 .. n : IsJson(caps.arr[i]) /\ IsStr(caps.arr[i])
      BY <2>1, KindsAre DEF PyUniqueTexts, PyMatch
    <2>3. \A i \in 1 .. n : caps.arr[i] = Str(caps.arr[i].str)
      BY <2>2, KindsAre
    <2> QED BY <2>1, <2>3 DEF PyUniqueTexts, PyUnique
  <1>4. /\ names = {f[i] : i \in DOMAIN f} /\ DOMAIN f = 1 .. n
        /\ \A i, j \in 1 .. n : f[i] = f[j] => i = j
        /\ \A name \in names : Str(name) \in ToSet(caps.arr)
    <2>1. names = {caps.arr[i].str : i \in 1 .. n}
      BY <1>3 DEF ToSet
    <2>2. \A i \in 1 .. n : f[i] = caps.arr[i].str
      OBVIOUS
    <2>3. \A i, j \in 1 .. n : f[i] = f[j] => i = j
      BY <1>3, <2>2
    <2>4. names = {f[i] : i \in DOMAIN f} /\ DOMAIN f = 1 .. n
      BY <2>1, <2>2
    <2>5. \A name \in names : Str(name) \in ToSet(caps.arr)
      BY <1>3, <2>1 DEF ToSet
    <2> QED BY <2>3, <2>4, <2>5
  <1> HIDE DEF f, names, n
  <1>5. Cardinality(names) = n
    BY <1>3, <1>4, DistinctAreCounted
  <1>6. IF v.obj["state"] = Str("moving") THEN Matches(v.obj["action"], ACTION_ID)
        ELSE v.obj["action"] = Null
    <2>1. (v.obj["state"].str = "moving") = (v.obj["state"] = Str("moving"))
      <3>1. v.obj["state"] = Str(v.obj["state"].str)
        BY <1>1, <1>2, OneOfIs
      <3> QED BY <3>1 DEF Str
    <2>2. IF v.obj["state"].str = "moving" THEN PyMatch(v.obj["action"], ActionId)
          ELSE v.obj["action"] = Null
      BY Zenon DEF PyMotionState
    <2>3. PyMatch(v.obj["action"], ActionId) = Matches(v.obj["action"], ACTION_ID)
      BY FieldsAgree, FormatsAgree
    <2> QED BY <2>1, <2>2, <2>3, Zenon
  <1> HIDE DEF joints
  <1> QED
    BY <1>1, <1>4, <1>5, <1>6, JointsAgree DEF IsMotionState, joints, n

LEMMA LightStatesAgree ==
    ASSUME NEW v, IsJson(v), NEW lights, PyLightState(v, lights)
    PROVE  IsLightState(v, lights)
  <1> DEFINE matrix == v.obj["matrix"]
             w == matrix.obj["width"]
             h == matrix.obj["height"]
             pixels == v.obj["pixels"]
             py == {i \in DOMAIN lights : lights[i].obj["target"] = Str("head_matrix")}
             head == {l \in ToSet(lights) : l.obj["target"] = Str("head_matrix")}
  <1>1. /\ Exactly(v, {"brightness", "matrix", "pixels"})
        /\ Between(v.obj["brightness"], 0, 1)
        /\ Exactly(matrix, {"width", "height"})
        /\ PyInteger(w, 1) /\ PyInteger(h, 1)
        /\ Colors(pixels) /\ 4 * Len(pixels.arr) = w.num * h.num
    <2>1. /\ PyFields(v, {"brightness", "matrix", "pixels"})
          /\ PyNumberRange(v.obj["brightness"], 0, 1)
          /\ PyFields(matrix, {"width", "height"})
          /\ PyInteger(w, 1) /\ PyInteger(h, 1)
          /\ PyColors(pixels) /\ 4 * Len(pixels.arr) = w.num * h.num
      BY Zenon DEF PyLightState
    <2> HIDE DEF matrix, w, h, pixels
    <2> QED BY <2>1, FieldsAgree
  <1>2. /\ Cardinality(py) = 1
        /\ \A i \in py : lights[i].obj["width"] = w /\ lights[i].obj["height"] = h
    BY DEF PyLightState
  <1>3. Integer(w, 1) /\ Integer(h, 1)
    BY <1>1, PartsAreJson, IntegersAgree
  <1>4. {i \in DOMAIN lights : lights[i] \in head} = py
    BY DEF ToSet
  <1>5. \A l \in head : l.obj["width"].num = w.num /\ l.obj["height"].num = h.num
    <2> SUFFICES ASSUME NEW l \in head
                 PROVE  l.obj["width"].num = w.num /\ l.obj["height"].num = h.num
      OBVIOUS
    <2>1. PICK i \in DOMAIN lights : l = lights[i]
      BY DEF ToSet
    <2>2. i \in py
      BY <2>1
    <2> QED BY <1>2, <2>1, <2>2
  <1>6. Cardinality({i \in DOMAIN lights : lights[i] \in head}) = 1
    BY <1>2, <1>4
  <1> QED BY <1>1, <1>3, <1>5, <1>6, Zenon DEF IsLightState

LEMMA QueuesAgree ==
    ASSUME NEW v, IsJson(v), PyQueue(v)
    PROVE  IsQueue(v)
  <1>1. /\ Exactly(v, {"size", "capacity"})
        /\ PyInteger(v.obj["size"], 0) /\ PyInteger(v.obj["capacity"], 0)
        /\ v.obj["size"].num <= v.obj["capacity"].num
    BY FieldsAgree DEF PyQueue
  <1>2. Integer(v.obj["size"], 0) /\ Integer(v.obj["capacity"], 0)
    BY <1>1, PartsAreJson, IntegersAgree
  <1> QED BY <1>1, <1>2 DEF IsQueue

(* Every state that DeviceState.from_dict accepts is one that the page's   *)
(* isDeviceState accepts, unless its extensions are null: Python takes     *)
(* null for none, and TypeScript does not.                                 *)
THEOREM StatesAgree ==
    ASSUME NEW v, IsJson(v), NEW device, PyState(v, device),
           ~NullExtensions(v.obj)
    PROVE  IsDeviceState(v)
  <1> DEFINE p == v.obj
             caps == p["capabilities"].obj
             names == {x.str : x \in ToSet(caps["motion"].obj["joints"].arr)}
  <1>1. IsObj(v) /\ Keys(p, StateFields, {"extensions"})
    BY FieldsAgree DEF PyState
  <1>2. /\ \A f \in StateFields : IsJson(p[f])
    BY <1>1, PartsAreJson
  <1>3. /\ Matches(p["device_id"], DEVICE_ID) /\ PyInteger(p["revision"], 0)
        /\ OneOf(p["connection"], {"connecting", "ready", "degraded", "offline"})
        /\ Exactly(p["status"], {"mode"})
        /\ OneOf(p["status"].obj["mode"], STATUS_MODES)
        /\ Exactly(p["status_strip"], {"color", "effect"})
        /\ Matches(p["status_strip"].obj["color"], COLOR)
        /\ OneOf(p["status_strip"].obj["effect"], STATUS_EFFECTS)
    BY FieldsAgree, FormatsAgree DEF PyState
  <1>4. /\ PyCapabilities(p["capabilities"]) /\ PyMotionState(p["motion"], names)
        /\ PyLightState(p["light"], caps["lights"].arr)
        /\ PyQueue(p["command_queue"]) /\ PyExtensions(p)
    BY DEF PyState
  <1>5. /\ IsJson(p["revision"]) /\ IsJson(p["capabilities"]) /\ IsJson(p["motion"])
        /\ IsJson(p["light"]) /\ IsJson(p["command_queue"])
    BY <1>2, Zenon DEF StateFields
  <1>6. IsCapabilities(p["capabilities"]) /\ Integer(p["revision"], 0)
    BY <1>3, <1>4, <1>5, CapabilitiesAgree, IntegersAgree, Zenon
  <1>7. IsMotionState(p["motion"], caps["motion"].obj["joints"].arr)
    BY <1>4, <1>5, CapabilitiesAgree, MotionStatesAgree, Zenon
  <1>8. IsLightState(p["light"], caps["lights"].arr)
    BY <1>4, <1>5, LightStatesAgree
  <1>9. IsQueue(p["command_queue"]) /\ ValidExtensions(p)
    BY <1>4, <1>5, QueuesAgree, ExtensionsAgree
  <1>10. Keys(p, {"device_id", "revision", "connection", "capabilities", "motion",
                  "light", "status", "status_strip", "command_queue"}, {"extensions"})
    BY <1>1 DEF StateFields
  <1> QED BY <1>1, <1>3, <1>6, <1>7, <1>8, <1>9, <1>10, Zenon DEF IsDeviceState

-----------------------------------------------------------------------------
LEMMA StartedAgree ==
    ASSUME NEW p, JsonFields(p), PyKeys(p, EventFields("motion.started"), {"extensions"}),
           PyStarted(p)
    PROVE  IsMotionStarted(p)
  <1>1. Keys(p, {"command_type", "action", "duration_ms"}, {"extensions"})
    BY FieldsAgree DEF EventFields
  <1>2. /\ OneOf(p["command_type"], {"motion.play", "motion.relative_move",
                                     "motion.absolute_move", "device.rest"})
        /\ Matches(p["action"], ACTION_ID)
        /\ PyInteger(p["duration_ms"], 1) /\ p["duration_ms"].num <= 2 * 60000
    BY FormatsAgree DEF PyStarted, MotionTypes, PyIntegerRange, PyEnum, OneOf,
                        PyMatch, Matches
  <1>3. IsJson(p["duration_ms"])
    BY <1>1 DEF JsonFields, Keys
  <1>4. IntegerIn(p["duration_ms"], 1, 60000)
    BY <1>2, <1>3, IntegersAgree DEF IntegerIn
  <1>5. ExpectedAction(p["command_type"].str, p["action"])
    BY DEF PyStarted, ExpectedAction
  <1> QED BY <1>1, <1>2, <1>4, <1>5 DEF IsMotionStarted

LEMMA FinishedAgree ==
    ASSUME NEW p, JsonFields(p), PyKeys(p, EventFields("motion.finished"), {"extensions"}),
           PyFinished(p)
    PROVE  IsMotionFinished(p)
  <1>1. Keys(p, {"action", "status", "elapsed_ms", "joints", "reason", "error"},
             {"extensions"})
    BY FieldsAgree DEF EventFields
  <1>2. /\ Matches(p["action"], ACTION_ID) /\ PyInteger(p["elapsed_ms"], 0)
        /\ OneOf(p["status"], {"completed", "cancelled", "failed"})
        /\ JointNumbers(p["joints"], FALSE)
    BY FieldsAgree, FormatsAgree DEF PyFinished
  <1>3. IsJson(p["elapsed_ms"]) /\ IsJson(p["status"])
    BY <1>1 DEF JsonFields, Keys
  <1>4. Integer(p["elapsed_ms"], 0)
    BY <1>2, <1>3, IntegersAgree
  <1>5. /\ p["status"] = Str(p["status"].str)
        /\ p["status"].str \in {"completed", "cancelled", "failed"}
    BY <1>2, <1>3, OneOfIs
  <1>6. \/ p["status"] = Str("completed") /\ p["reason"] = Null /\ p["error"] = Null
        \/ /\ p["status"] = Str("cancelled")
           /\ Matches(p["reason"], ACTION_ID) /\ p["error"] = Null
        \/ /\ p["status"] = Str("failed")
           /\ p["reason"] = Null /\ IsProtocolError(p["error"])
    BY <1>5, FieldsAgree, FormatsAgree, ErrorsAgree DEF PyFinished
  <1> QED BY <1>1, <1>2, <1>4, <1>6 DEF IsMotionFinished

LEMMA SensorsAgree ==
    ASSUME NEW p, JsonFields(p), NEW type \in Sensors,
           PyKeys(p, EventFields(type), {"extensions"}),
           IF type = "sensor.touch"
           THEN /\ PyEnum(p["position"], {"left", "middle", "right"})
                /\ IsBool(p["pressed"])
           ELSE PyVision(p)
    PROVE  IsSensor(type, p)
  <1>1. CASE type = "sensor.touch"
    <2>1. Keys(p, {"position", "pressed"}, {"extensions"})
      BY <1>1, FieldsAgree DEF EventFields
    <2> QED BY <1>1, <2>1, FieldsAgree DEF IsSensor
  <1>2. CASE type # "sensor.touch"
    <2>1. Keys(p, {"id", "label", "confidence"}, {"extensions"})
      BY <1>2, FieldsAgree DEF EventFields, Sensors
    <2>2. IsJson(p["id"])
      BY <2>1 DEF JsonFields, Keys
    <2>3. Integer(p["id"], 0)
      BY <1>2, <2>2, IntegersAgree DEF PyVision
    <2> QED BY <1>2, <2>1, <2>3, FieldsAgree DEF IsSensor, PyVision
  <1> QED BY <1>1, <1>2

(* The payload of every type but a state and an error.                     *)
LEMMA PayloadsAgree ==
    ASSUME NEW p, JsonFields(p), NEW type \in EventTypes, NEW device,
           type \notin {"device.state_changed", "device.error"},
           PyEventPayload(type, p, device)
    PROVE  /\ type = "command.accepted" =>
                /\ Keys(p, {"command_type", "disposition"}, {"extensions"})
                /\ OneOf(p["command_type"], COMMAND_TYPES)
                /\ OneOf(p["disposition"], {"applied", "queued"})
           /\ type \in Sensors => IsSensor(type, p)
           /\ type = "motion.started" => IsMotionStarted(p)
           /\ type = "motion.progress" =>
                /\ Keys(p, {"action", "progress", "elapsed_ms", "joints"},
                        {"extensions"})
                /\ Matches(p["action"], ACTION_ID) /\ Between(p["progress"], 0, 1)
                /\ Integer(p["elapsed_ms"], 0) /\ JointNumbers(p["joints"], FALSE)
           /\ type = "motion.finished" => IsMotionFinished(p)
  <1>1. PyKeys(p, EventFields(type), {"extensions"})
    BY DEF PyEventPayload
  <1>2. CASE type = "command.accepted"
    <2>1. Keys(p, {"command_type", "disposition"}, {"extensions"})
      BY <1>1, <1>2, FieldsAgree DEF EventFields
    <2>2. /\ PyEnum(p["command_type"], CommandTypes)
          /\ PyEnum(p["disposition"], {"applied", "queued"})
      BY <1>2 DEF PyEventPayload
    <2>3. /\ OneOf(p["command_type"], COMMAND_TYPES)
          /\ OneOf(p["disposition"], {"applied", "queued"})
      BY <2>2, FormatsAgree DEF PyEnum, OneOf
    <2> QED BY <1>2, <2>1, <2>3 DEF Sensors
  <1>3. CASE type \in Sensors
    <2>1. IF type = "sensor.touch"
          THEN /\ PyEnum(p["position"], {"left", "middle", "right"})
               /\ IsBool(p["pressed"])
          ELSE PyVision(p)
      BY <1>3 DEF PyEventPayload, Sensors
    <2>2. IsSensor(type, p)
      BY <1>1, <1>3, <2>1, SensorsAgree
    <2> QED BY <1>3, <2>2 DEF Sensors
  <1>4. CASE type = "motion.started"
    <2>1. PyStarted(p)
      BY <1>4 DEF PyEventPayload
    <2> QED BY <1>1, <1>4, <2>1, StartedAgree DEF Sensors
  <1>5. CASE type = "motion.progress"
    <2>1. Keys(p, {"action", "progress", "elapsed_ms", "joints"}, {"extensions"})
      BY <1>1, <1>5, FieldsAgree DEF EventFields
    <2>2. /\ PyMatch(p["action"], ActionId) /\ PyNumberRange(p["progress"], 0, 1)
          /\ PyInteger(p["elapsed_ms"], 0) /\ PyJointNumbers(p["joints"])
      BY <1>5 DEF PyEventPayload
    <2>3. IsJson(p["elapsed_ms"])
      BY <2>1 DEF JsonFields, Keys
    <2>4. Integer(p["elapsed_ms"], 0)
      BY <2>2, <2>3, IntegersAgree
    <2> QED BY <1>5, <2>1, <2>2, <2>4, FieldsAgree, FormatsAgree DEF Sensors
  <1>6. CASE type = "motion.finished"
    <2>1. PyFinished(p)
      BY <1>6 DEF PyEventPayload
    <2> QED BY <1>1, <1>6, <2>1, FinishedAgree DEF Sensors
  <1> QED BY <1>2, <1>3, <1>4, <1>5, <1>6 DEF EventTypes, Sensors

LEMMA ForwardedIs ==
    ASSUME NEW e, JsonFields(e), PyEvent(e), e["timestamp"] # Str("wide")
    PROVE  /\ "correlation_id" \in DOMAIN Forwarded(e) <=> HasCorrelation(e)
           /\ \A f \in DOMAIN Forwarded(e) : f \in DOMAIN e /\ Forwarded(e)[f] = e[f]
           /\ \A f \in EnvelopeFields : f \in DOMAIN Forwarded(e)
           /\ ValidEnvelope(Forwarded(e), {"correlation_id"})
  <1> DEFINE g == Forwarded(e)
  <1>1. /\ EnvelopeFields \subseteq DOMAIN e
        /\ DOMAIN e \subseteq EnvelopeFields \union {"correlation_id"}
        /\ Matches(e["version"], {"1"}) /\ Matches(e["id"], UUID)
        /\ Matches(e["type"], MESSAGE_TYPE) /\ Matches(e["timestamp"], Timestamp)
        /\ Matches(e["device_id"], DEVICE_ID) /\ IsObj(e["payload"])
        /\ HasCorrelation(e) => Matches(e["correlation_id"], UUID)
    BY FormatsAgree DEF PyEvent, PyEnvelope, PyKeys, PyMatch, Matches
  <1>2. "correlation_id" \in DOMAIN g <=> HasCorrelation(e)
    BY DEF Forwarded, HasCorrelation
  <1>3. \A f \in DOMAIN g : f \in DOMAIN e /\ g[f] = e[f]
    BY DEF Forwarded
  <1>4. \A f \in EnvelopeFields : f \in DOMAIN g
    BY <1>1 DEF Forwarded, EnvelopeFields
  <1> HIDE DEF g
  <1>5. Keys(g, EnvelopeFields, {"correlation_id"})
    BY <1>1, <1>3, <1>4 DEF Keys
  <1>6. e["version"] = Str("1")
    <2>1. IsJson(e["version"])
      BY <1>1 DEF JsonFields, EnvelopeFields
    <2> QED BY <1>1, <2>1, KindsAre DEF Matches
  <1>a. Matches(e["timestamp"], TIMESTAMP)
    <2>1. IsJson(e["timestamp"])
      BY <1>1 DEF JsonFields, EnvelopeFields
    <2>2. e["timestamp"] = Str(e["timestamp"].str)
      BY <1>1, <2>1, KindsAre DEF Matches
    <2> QED BY <1>1, <2>2, FormatsAgree DEF Matches
  <1>7. /\ g["version"] = e["version"] /\ g["id"] = e["id"] /\ g["type"] = e["type"]
        /\ g["timestamp"] = e["timestamp"] /\ g["device_id"] = e["device_id"]
        /\ g["payload"] = e["payload"]
        /\ HasCorrelation(e) => g["correlation_id"] = e["correlation_id"]
    BY <1>2, <1>3, <1>4 DEF EnvelopeFields
  <1>8. Keys(g, {"version", "id", "type", "timestamp", "device_id", "payload"},
             {"correlation_id"})
    BY <1>5 DEF EnvelopeFields
  <1>9. ValidEnvelope(g, {"correlation_id"})
    BY <1>1, <1>a, <1>2, <1>6, <1>7, <1>8 DEF ValidEnvelope
  <1> QED BY <1>2, <1>3, <1>4, <1>9 DEF g

(* Every event that DeviceEvent.from_dict accepts is read by the page's    *)
(* parseDeviceEvent in the form in which the gateway forwards it, but with *)
(* extensions that are null or a time in other digits.                     *)
THEOREM EventsAgree ==
    ASSUME NEW e, JsonFields(e), PyEvent(e), ~NullExtensions(e["payload"].obj),
           e["timestamp"] # Str("wide")
    PROVE  ParseDeviceEvent(Forwarded(e))
  <1> DEFINE g == Forwarded(e)
             type == e["type"].str
             p == e["payload"].obj
  <1>1. /\ "correlation_id" \in DOMAIN g <=> HasCorrelation(e)
        /\ g["type"] = e["type"] /\ g["payload"] = e["payload"]
        /\ g["device_id"] = e["device_id"]
        /\ ValidEnvelope(g, {"correlation_id"})
    BY ForwardedIs DEF EnvelopeFields
  <1> HIDE DEF g
  <1>2. e["payload"] = Obj(p) /\ IsJson(e["payload"]) /\ JsonFields(p)
    <2>1. "payload" \in DOMAIN e /\ IsObj(e["payload"])
      BY DEF PyEvent, PyEnvelope, PyKeys, EnvelopeFields
    <2> QED BY <2>1, KindsAre DEF JsonFields
  <1>3. ASSUME type \in EventTypes
        PROVE  ValidEventPayload(g)
    <2>1. /\ type \in Correlated => HasCorrelation(e)
          /\ type \in Sensors => ~HasCorrelation(e)
          /\ PyEventPayload(type, p, e["device_id"]) /\ PyExtensions(p)
      BY <1>3 DEF PyEvent
    <2>2. ValidExtensions(p)
      BY <2>1, ExtensionsAgree
    <2>3. ASSUME type \notin {"device.state_changed", "device.error"}
          PROVE  ValidEventPayload(g)
      <3>1. type \in {"command.accepted", "motion.started", "motion.progress",
                      "motion.finished"} \union Sensors
        BY <1>3, <2>3 DEF EventTypes, Sensors
      <3> HIDE DEF type, p
      <3>2. CASE type = "command.accepted"
        <4>1. ValidEventPayload(g) =
                /\ type \in Correlated => "correlation_id" \in DOMAIN g
                /\ type \in Sensors => "correlation_id" \notin DOMAIN g
                /\ Keys(p, {"command_type", "disposition"}, {"extensions"})
                /\ OneOf(p["command_type"], COMMAND_TYPES)
                /\ OneOf(p["disposition"], {"applied", "queued"})
                /\ ValidExtensions(p)
          BY <1>1, <3>2 DEF ValidEventPayload, Sensors, type, p
        <4> QED BY <1>1, <1>2, <1>3, <2>1, <2>2, <2>3, <3>2, <4>1, PayloadsAgree
      <3>3. CASE type \in Sensors
        <4>1. IsSensor(type, p)
          BY <1>2, <1>3, <2>1, <2>3, <3>3, PayloadsAgree
        <4> QED BY <1>1, <2>1, <2>2, <3>3, <4>1
            DEF ValidEventPayload, Sensors, Correlated, type, p
      <3>4. CASE type = "motion.started"
        <4>1. IsMotionStarted(p)
          BY <1>2, <1>3, <2>1, <2>3, <3>4, PayloadsAgree
        <4> QED BY <1>1, <2>1, <2>2, <3>4, <4>1
            DEF ValidEventPayload, Sensors, Correlated, type, p
      <3>5. CASE type = "motion.progress"
        <4>1. ValidEventPayload(g) =
                /\ type \in Correlated => "correlation_id" \in DOMAIN g
                /\ type \in Sensors => "correlation_id" \notin DOMAIN g
                /\ Keys(p, {"action", "progress", "elapsed_ms", "joints"},
                        {"extensions"})
                /\ Matches(p["action"], ACTION_ID) /\ Between(p["progress"], 0, 1)
                /\ Integer(p["elapsed_ms"], 0) /\ JointNumbers(p["joints"], FALSE)
                /\ ValidExtensions(p)
          BY <1>1, <3>5 DEF ValidEventPayload, Sensors, type, p
        <4> QED BY <1>1, <1>2, <1>3, <2>1, <2>2, <2>3, <3>5, <4>1, PayloadsAgree
      <3>6. CASE type = "motion.finished"
        <4>1. IsMotionFinished(p)
          BY <1>2, <1>3, <2>1, <2>3, <3>6, PayloadsAgree
        <4> QED BY <1>1, <2>1, <2>2, <3>6, <4>1
            DEF ValidEventPayload, Sensors, Correlated, type, p
      <3> QED BY <3>1, <3>2, <3>3, <3>4, <3>5, <3>6
    <2>4. CASE type = "device.state_changed"
      <3>1. PyState(e["payload"], e["device_id"])
        BY <1>2, <2>1, <2>4, Zenon DEF PyEventPayload
      <3>2. IsDeviceState(e["payload"]) /\ p["device_id"] = e["device_id"]
        BY <1>2, <3>1, StatesAgree, Zenon DEF PyState
      <3> QED
        BY <1>1, <2>1, <2>2, <2>4, <3>2 DEF ValidEventPayload, Sensors, Correlated
    <2>5. CASE type = "device.error"
      <3>1. IsProtocolError(e["payload"])
        BY <1>2, <2>1, <2>5, ErrorsAgree DEF PyEventPayload
      <3> QED
        BY <1>1, <2>1, <2>2, <2>5, <3>1 DEF ValidEventPayload, Sensors, Correlated
    <2> QED BY <2>3, <2>4, <2>5
  <1> QED BY <1>1, <1>3, FormatsAgree DEF ParseDeviceEvent, g

-----------------------------------------------------------------------------
LEMMA ObjIs == \A p : IsObj(Obj(p)) /\ Obj(p).obj = p
  BY DEF IsObj, Obj

LEMMA StrIs == \A s : IsStr(Str(s)) /\ Str(s).str = s
  BY DEF IsStr, Str

LEMMA TextsAreFilled ==
    /\ Filled(Str("sim")) /\ Filled(Str("s1")) /\ Filled(Str("id1"))
    /\ Filled(Str("offline")) /\ Filled(Str("gone"))
  BY DEF Filled, IsStr, Str, Trim

LEMMA OthersAreFilled == \A text : Trim(text) # "" => Filled(Str(text))
  BY StrIs DEF Filled

LEMMA LeasesAreRead == \A l \in Lease : IsLease(l)
  BY DEF Lease, IsLease, IsObj, IsNum, Obj, Str, Halves

LEMMA RouterErrorIsRead ==
    ASSUME NEW m, {"code", "message", "recoverable"} \subseteq DOMAIN m,
           m["code"] = Str("offline"), m["message"] = Str(m["message"].str),
           Trim(m["message"].str) # "", m["recoverable"] = Bool(FALSE)
    PROVE  IsRouterError(Obj(m))
  <1>1. IsObj(Obj(m)) /\ Obj(m).obj = m
    BY DEF IsObj, Obj
  <1>2. IsBool(Bool(FALSE))
    BY DEF IsBool, Bool
  <1>3. Filled(m["message"])
    BY OthersAreFilled
  <1> QED BY <1>1, <1>2, <1>3, TextsAreFilled DEF IsRouterError

LEMMA RouterErrorIs ==
    ASSUME NEW text
    PROVE  /\ DOMAIN RouterError(text) = {"code", "message", "recoverable"}
           /\ RouterError(text)["code"] = Str("offline")
           /\ RouterError(text)["message"] = Str(text)
           /\ RouterError(text)["recoverable"] = Bool(FALSE)
  BY DEF RouterError

LEMMA TextIs ==
    ASSUME NEW m, NEW text, m["message"] = Str(text)
    PROVE  m["message"] = Str(m["message"].str) /\ m["message"].str = text
  BY DEF Str

LEMMA SnapshotIs ==
    ASSUME NEW s
    PROVE  /\ DOMAIN Snapshot(s) = {"target_id", "target_epoch", "state"}
           /\ Snapshot(s)["target_id"] = Str("sim")
           /\ Snapshot(s)["target_epoch"] = Whole(0)
           /\ Snapshot(s)["state"] = Obj(s)
  BY DEF Snapshot

LEMMA EpochsAreRead == Integer(Whole(0), 0) /\ Integer(Whole(1), 0)
  BY DEF Integer, IsNum, Whole

ConsoleTypes == {"console.hello", "console.state", "console.event", "console.error",
                 "console.control"}

IsOnly(v, type) ==
    v = Str(type) /\ \A other \in ConsoleTypes \ {type} : v # Str(other)

LEMMA TypesDiffer == \A type \in ConsoleTypes : IsOnly(Str(type), type)
  BY DEF Str, IsOnly, ConsoleTypes

(* What is read of each type.                                              *)
LEMMA ParsedByType ==
    ASSUME NEW m
    PROVE  /\ IsOnly(m["type"], "console.hello") =>
                ParseConsoleIncoming(m) =
                  /\ {"session_id", "lease", "target_id", "state"} \subseteq DOMAIN m
                  /\ Filled(m["session_id"]) /\ IsLease(m["lease"])
                  /\ IsTargetId(m["target_id"]) /\ HasEpoch(m)
                  /\ IsDeviceState(m["state"])
           /\ IsOnly(m["type"], "console.state") =>
                ParseConsoleIncoming(m) =
                  /\ {"target_id", "state"} \subseteq DOMAIN m
                  /\ IsTargetId(m["target_id"]) /\ HasEpoch(m)
                  /\ IsDeviceState(m["state"])
           /\ IsOnly(m["type"], "console.event") =>
                ParseConsoleIncoming(m) =
                  /\ {"target_id", "event"} \subseteq DOMAIN m
                  /\ Filled(m["target_id"]) /\ HasEpoch(m)
                  /\ "error" \in DOMAIN m => IsRouterError(m["error"])
                  /\ IsObj(m["event"]) /\ ParseDeviceEvent(m["event"].obj)
           /\ IsOnly(m["type"], "console.error") =>
                ParseConsoleIncoming(m) =
                  /\ IsRouterError(Obj(m))
                  /\ "request_id" \in DOMAIN m => Filled(m["request_id"])
           /\ IsOnly(m["type"], "console.control") =>
                ParseConsoleIncoming(m) = ("lease" \in DOMAIN m /\ IsLease(m["lease"]))
  <1>1. CASE IsOnly(m["type"], "console.hello")
    BY <1>1 DEF IsOnly, ConsoleTypes, ParseConsoleIncoming
  <1>2. CASE IsOnly(m["type"], "console.state")
    BY <1>2 DEF IsOnly, ConsoleTypes, ParseConsoleIncoming
  <1>3. CASE IsOnly(m["type"], "console.event")
    BY <1>3 DEF IsOnly, ConsoleTypes, ParseConsoleIncoming
  <1>4. CASE IsOnly(m["type"], "console.error")
    BY <1>4 DEF IsOnly, ConsoleTypes, ParseConsoleIncoming
  <1>5. CASE IsOnly(m["type"], "console.control")
    BY <1>5 DEF IsOnly, ConsoleTypes, ParseConsoleIncoming
  <1> QED BY <1>1, <1>2, <1>3, <1>4, <1>5

LEMMA StatesAreRead ==
    ASSUME NEW m, {"target_id", "state", "target_epoch"} \subseteq DOMAIN m,
           m["target_id"] = Str("sim"), m["target_epoch"] = Whole(0),
           IsDeviceState(m["state"])
    PROVE  /\ m["type"] = Str("console.state") => ParseConsoleIncoming(m)
           /\ /\ m["type"] = Str("console.hello")
              /\ {"session_id", "lease"} \subseteq DOMAIN m
              /\ m["session_id"] = Str("s1") /\ IsLease(m["lease"])
              => ParseConsoleIncoming(m)
  <1>1. HasEpoch(m) /\ IsTargetId(m["target_id"])
    BY EpochsAreRead, TextsAreFilled DEF HasEpoch, IsTargetId
  <1>2. CASE m["type"] = Str("console.state")
    <2>1. IsOnly(m["type"], "console.state") /\ Str("console.state") # Str("console.hello")
      BY <1>2, TypesDiffer DEF ConsoleTypes, IsOnly
    <2> QED BY <1>1, <1>2, <2>1, ParsedByType
  <1>3. CASE m["type"] = Str("console.hello")
    <2>1. IsOnly(m["type"], "console.hello") /\ Str("console.state") # Str("console.hello")
      BY <1>3, TypesDiffer DEF ConsoleTypes, IsOnly
    <2> QED BY <1>1, <1>3, <2>1, ParsedByType, TextsAreFilled
  <1> QED BY <1>2, <1>3

LEMMA StateMessagesAreRead ==
    ASSUME NEW s, IsDeviceState(Obj(s)), NEW l \in Lease
    PROVE  /\ ParseConsoleIncoming(Of("console.state", Snapshot(s)))
           /\ ParseConsoleIncoming(Of("console.hello",
                 With(With(Snapshot(s), "session_id", Str("s1")), "lease", l)))
  <1> DEFINE b == With(With(Snapshot(s), "session_id", Str("s1")), "lease", l)
             hello == Of("console.hello", b)
             state == Of("console.state", Snapshot(s))
  <1>1. /\ {"target_id", "state", "target_epoch"} \subseteq DOMAIN state
        /\ state["type"] = Str("console.state")
    BY SnapshotIs DEF Of, With
  <1>2. /\ state["target_id"] = Str("sim") /\ state["target_epoch"] = Whole(0)
        /\ state["state"] = Obj(s)
    BY SnapshotIs DEF Of, With
  <1>3. ParseConsoleIncoming(state)
    <2> HIDE DEF state
    <2> QED BY <1>1, <1>2, StatesAreRead
  <1>4. /\ DOMAIN b = {"target_id", "target_epoch", "state", "session_id", "lease"}
        /\ b["session_id"] = Str("s1") /\ b["lease"] = l
    BY SnapshotIs DEF With
  <1>5. /\ b["target_id"] = Str("sim") /\ b["target_epoch"] = Whole(0)
        /\ b["state"] = Obj(s)
    BY SnapshotIs DEF With
  <1> HIDE DEF b
  <1>6. /\ {"target_id", "state", "target_epoch", "session_id", "lease"}
             \subseteq DOMAIN hello
        /\ hello["type"] = Str("console.hello")
        /\ hello["session_id"] = Str("s1") /\ hello["lease"] = l
    BY <1>4 DEF Of, With
  <1>7. /\ hello["target_id"] = Str("sim") /\ hello["target_epoch"] = Whole(0)
        /\ hello["state"] = Obj(s)
    BY <1>4, <1>5 DEF Of, With
  <1> HIDE DEF hello
  <1>8. ParseConsoleIncoming(hello)
    <2>1. IsLease(hello["lease"]) /\ IsDeviceState(hello["state"])
      BY <1>6, <1>7, LeasesAreRead
    <2> QED BY <1>6, <1>7, <2>1, StatesAreRead
  <1> QED BY <1>3, <1>8 DEF state, hello, b

LEMMA EventMessagesAreRead ==
    ASSUME NEW m, {"target_id", "event", "target_epoch"} \subseteq DOMAIN m,
           m["target_id"] = Str("sim"), m["target_epoch"] \in {Whole(0), Whole(1)},
           "error" \in DOMAIN m => m["error"] = Obj(RouterError("gone")),
           NEW e, m["event"] = Obj(e), ParseDeviceEvent(e)
    PROVE  ParseConsoleIncoming(Of("console.event", m))
  <1> DEFINE n == Of("console.event", m)
  <1>1. n["type"] = Str("console.event") /\ DOMAIN n = DOMAIN m \union {"type"}
    BY DEF Of, With
  <1>2. /\ n["target_id"] = Str("sim") /\ n["event"] = Obj(e)
        /\ n["target_epoch"] = m["target_epoch"]
    BY DEF Of, With
  <1>3. "error" \in DOMAIN n => n["error"] = Obj(RouterError("gone"))
    BY DEF Of, With
  <1>4. IsRouterError(Obj(RouterError("gone")))
    <2> DEFINE r == RouterError("gone")
    <2>1. /\ DOMAIN r = {"code", "message", "recoverable"}
          /\ r["code"] = Str("offline") /\ r["message"] = Str("gone")
          /\ r["recoverable"] = Bool(FALSE)
      BY RouterErrorIs
    <2> HIDE DEF r
    <2>a. Trim("gone") # ""
      BY DEF Trim
    <2>2. r["message"] = Str(r["message"].str) /\ r["message"].str = "gone"
      BY <2>1, TextIs
    <2>3. IsRouterError(Obj(r))
      BY <2>1, <2>2, <2>a, RouterErrorIsRead
    <2> QED BY <2>3 DEF r
  <1>5. IsObj(Obj(e)) /\ Obj(e).obj = e
    BY DEF IsObj, Obj
  <1>6. IsOnly(n["type"], "console.event")
    BY <1>1, TypesDiffer DEF ConsoleTypes
  <1> HIDE DEF n
  <1>7. HasEpoch(n) /\ Filled(n["target_id"])
    BY <1>1, <1>2, EpochsAreRead, TextsAreFilled DEF HasEpoch
  <1>8. ParseConsoleIncoming(n)
    BY <1>1, <1>2, <1>3, <1>4, <1>5, <1>6, <1>7, ParsedByType
  <1> QED BY <1>8 DEF n

LEMMA ControlMessagesAreRead ==
    ASSUME NEW l \in Lease
    PROVE  ParseConsoleIncoming(Of("console.control", [lease |-> l]))
  <1> DEFINE n == Of("console.control", [lease |-> l])
  <1>1. n["type"] = Str("console.control") /\ "lease" \in DOMAIN n /\ n["lease"] = l
    BY DEF Of, With
  <1>2. IsOnly(n["type"], "console.control")
    BY <1>1, TypesDiffer DEF ConsoleTypes
  <1> HIDE DEF n
  <1>3. ParseConsoleIncoming(n)
    BY <1>1, <1>2, LeasesAreRead, ParsedByType
  <1> QED BY <1>3 DEF n

LEMMA RepliesAre ==
    ASSUME NEW id, NEW e \in ErrorReplies(id)
    PROVE  /\ \/ DOMAIN e = FailureFields
              \/ DOMAIN e = FailureFields \union {"request_id"}
           /\ {"code", "message", "recoverable"} \subseteq DOMAIN e
           /\ e["code"] = Str("offline") /\ e["message"] = Str(e["message"].str)
           /\ e["recoverable"] = Bool(FALSE)
           /\ "request_id" \in DOMAIN e => e["request_id"] = Str(id)
  <1>1. PICK text \in ErrorTexts :
           e \in {RouterError(text), With(RouterError(text), "request_id", Str(id))}
    BY DEF ErrorReplies
  <1>2. /\ \/ DOMAIN e = FailureFields
           \/ DOMAIN e = FailureFields \union {"request_id"}
        /\ e["code"] = Str("offline") /\ e["message"] = Str(text)
        /\ e["recoverable"] = Bool(FALSE)
        /\ "request_id" \in DOMAIN e => e["request_id"] = Str(id)
    <2>1. CASE e = RouterError(text)
      <3>1. /\ DOMAIN e = {"code", "message", "recoverable"}
            /\ e["code"] = Str("offline") /\ e["message"] = Str(text)
            /\ e["recoverable"] = Bool(FALSE)
        BY <2>1, RouterErrorIs
      <3> QED BY <3>1 DEF FailureFields
    <2>2. CASE e = With(RouterError(text), "request_id", Str(id))
      <3> DEFINE q == RouterError(text)
      <3>1. /\ DOMAIN q = {"code", "message", "recoverable"}
            /\ q["code"] = Str("offline") /\ q["message"] = Str(text)
            /\ q["recoverable"] = Bool(FALSE)
        BY RouterErrorIs
      <3> HIDE DEF q
      <3>2. /\ DOMAIN e = DOMAIN q \union {"request_id"} /\ e["request_id"] = Str(id)
            /\ \A f \in DOMAIN q \ {"request_id"} : e[f] = q[f]
        BY <2>2 DEF With, q
      <3> QED BY <3>1, <3>2 DEF FailureFields
    <2> QED BY <1>1, <2>1, <2>2
  <1>3. e["message"] = Str(e["message"].str)
    BY <1>2, TextIs
  <1> QED BY <1>2, <1>3 DEF FailureFields

LEMMA ErrorMessagesAreRead ==
    ASSUME NEW e \in ErrorReplies("id1"), ~Blank(e["message"])
    PROVE  ParseConsoleIncoming(Of("console.error", e))
  <1> DEFINE n == Of("console.error", e)
  <1>1. /\ {"code", "message", "recoverable"} \subseteq DOMAIN e
        /\ e["code"] = Str("offline") /\ e["message"] = Str(e["message"].str)
        /\ e["recoverable"] = Bool(FALSE)
        /\ "request_id" \in DOMAIN e => e["request_id"] = Str("id1")
    BY RepliesAre
  <1>2. Trim(e["message"].str) # ""
    BY DEF Blank
  <1>3. n["type"] = Str("console.error") /\ DOMAIN n = DOMAIN e \union {"type"}
    BY DEF Of, With
  <1>4. \A f \in DOMAIN e : f # "type" => n[f] = e[f]
    BY DEF Of, With
  <1>5. IsOnly(n["type"], "console.error")
    BY <1>3, TypesDiffer DEF ConsoleTypes
  <1> HIDE DEF n
  <1>6. IsRouterError(Obj(n))
    BY <1>1, <1>2, <1>3, <1>4, RouterErrorIsRead
  <1>7. "request_id" \in DOMAIN n => Filled(n["request_id"])
    BY <1>1, <1>3, <1>4, TextsAreFilled
  <1>8. ParseConsoleIncoming(n)
    BY <1>3, <1>5, <1>6, <1>7, ParsedByType
  <1> QED BY <1>8 DEF n

WideTime(e) == e["timestamp"] = Str("wide")

(* The gateway's messages, whatever states and events they carry.          *)
THEOREM GatewayAgrees ==
    ASSUME NEW states, \A s \in states : NullExtensions(s) \/ IsDeviceState(Obj(s)),
           NEW events,
           \A e \in events : \/ WideTime(e) \/ NullExtensions(e["payload"].obj)
                             \/ ParseDeviceEvent(e),
           ParseDeviceEvent(Envelope("device.state_changed", State)),
           NEW m \in GatewaySends(states, events), ~KnownFromGateway(m)
    PROVE  ParseConsoleIncoming(m)
  <1> DEFINE carrying(e) ==
               [target_id |-> Str("sim"), target_epoch |-> Whole(0), event |-> Obj(e)]
             changed == [target_id |-> Str("sim"), target_epoch |-> Whole(1),
                         event |-> Obj(Envelope("device.state_changed", State)),
                         error |-> Obj(RouterError("gone"))]
             hello(s, l) == Of("console.hello",
                 With(With(Snapshot(s), "session_id", Str("s1")), "lease", l))
             control(l) == Of("console.control", [lease |-> l])
             errors == ErrorReplies("id1")
             M1 == {hello(s, l) : s \in states, l \in Lease}
             M2 == {Of("console.state", Snapshot(s)) : s \in states}
             M3 == {Of("console.event", carrying(e)) : e \in events}
             M4 == {Of("console.event", changed)}
             M5 == {control(l) : l \in Lease}
             M6 == {Of("console.error", e) : e \in errors}
  <1>1. ASSUME NEW e \in events, m = Of("console.event", carrying(e))
        PROVE  ParseConsoleIncoming(m)
    <2> DEFINE c == carrying(e)
    <2>1. /\ {"target_id", "event", "target_epoch"} \subseteq DOMAIN c
          /\ c["target_id"] = Str("sim") /\ c["target_epoch"] = Whole(0)
          /\ "error" \notin DOMAIN c /\ c["event"] = Obj(e)
      OBVIOUS
    <2> HIDE DEF c
    <2>2. "event" \in DOMAIN m /\ m["event"] = Obj(e) /\ Obj(e).obj = e
      BY <1>1, <2>1 DEF Of, With, Obj, c
    <2>3. ~WideTime(e) /\ ~NullExtensions(e["payload"].obj)
      BY <2>2 DEF KnownFromGateway, WideTime
    <2>4. ParseDeviceEvent(e)
      BY <2>3
    <2>5. ParseConsoleIncoming(Of("console.event", c))
      BY <2>1, <2>4, EventMessagesAreRead
    <2> QED BY <1>1, <2>5 DEF c
  <1>2. ParseConsoleIncoming(Of("console.event", changed))
    <2>1. /\ {"target_id", "event", "target_epoch"} \subseteq DOMAIN changed
          /\ changed["target_id"] = Str("sim") /\ changed["target_epoch"] = Whole(1)
          /\ changed["error"] = Obj(RouterError("gone"))
          /\ changed["event"] = Obj(Envelope("device.state_changed", State))
      OBVIOUS
    <2> HIDE DEF changed
    <2> QED BY <2>1, EventMessagesAreRead
  <1>a. ASSUME NEW s \in states, "state" \in DOMAIN m, m["state"] = Obj(s)
        PROVE  IsDeviceState(Obj(s))
    <2>1. m["state"].obj = s
      BY <1>a DEF Obj
    <2> QED BY <1>a, <2>1 DEF KnownFromGateway
  <1>3. ASSUME NEW s \in states, NEW l \in Lease, m = hello(s, l)
        PROVE  ParseConsoleIncoming(m)
    <2>1. "state" \in DOMAIN m /\ m["state"] = Obj(s)
      BY <1>3, SnapshotIs DEF Of, With
    <2>2. ParseConsoleIncoming(hello(s, l))
      BY <1>a, <2>1, StateMessagesAreRead
    <2> QED BY <1>3, <2>2
  <1>4. ASSUME NEW s \in states, m = Of("console.state", Snapshot(s))
        PROVE  ParseConsoleIncoming(m)
    <2>1. \E l : l \in Lease
      BY DEF Lease
    <2>2. "state" \in DOMAIN m /\ m["state"] = Obj(s)
      BY <1>4, SnapshotIs DEF Of, With
    <2>3. ParseConsoleIncoming(Of("console.state", Snapshot(s)))
      BY <1>a, <2>1, <2>2, StateMessagesAreRead
    <2> QED BY <1>4, <2>3
  <1>5. \A l \in Lease : ParseConsoleIncoming(control(l))
    BY ControlMessagesAreRead
  <1>6. ASSUME NEW e \in errors, m = Of("console.error", e)
        PROVE  ParseConsoleIncoming(m)
    <2>1. "message" \in DOMAIN e
      BY RepliesAre
    <2>2. m["type"] = Str("console.error") /\ m["message"] = e["message"]
      BY <1>6, <2>1 DEF Of, With
    <2>3. ~Blank(e["message"])
      BY <2>2 DEF KnownFromGateway
    <2>4. ParseConsoleIncoming(Of("console.error", e))
      BY <2>3, ErrorMessagesAreRead
    <2> QED BY <1>6, <2>4
  <1>7. GatewaySends(states, events)
          = M1 \union M2 \union M3 \union M4 \union M5 \union M6
    BY DEF GatewaySends
  <1>8. m \in M1 \/ m \in M2 \/ m \in M3 \/ m \in M4 \/ m \in M5 \/ m \in M6
    <2> HIDE DEF M1, M2, M3, M4, M5, M6
    <2> QED BY <1>7
  <1> HIDE DEF carrying, changed, hello, control, errors
  <1> QED BY <1>1, <1>2, <1>3, <1>4, <1>5, <1>6, <1>8

-----------------------------------------------------------------------------
AllCountAlike(e) == \A f \in DOMAIN e : CountsAlike(e[f])

LEMMA IdentifiersAgree ==
    ASSUME NEW v, NEW longest, Identifier(v, longest), CountsAlike(v)
    PROVE  /\ longest = 128 => CorrelationId(v)
           /\ Filled(v) /\ JsLen(v.str) <= longest
  <1>0. PyLen(v.str) = JsLen(v.str) /\ Strip(v.str) = Trim(v.str)
    BY DEF Identifier, CountsAlike
  <1>1. longest = 128 => CorrelationId(v)
    BY <1>0, Zenon DEF Identifier, CorrelationId
  <1>2. Filled(v)
    BY <1>0, Zenon DEF Identifier, Filled
  <1>3. JsLen(v.str) <= longest
    BY <1>0, Zenon DEF Identifier
  <1> QED BY <1>1, <1>2, <1>3

LEMMA FailuresAgree ==
    ASSUME NEW e, {"code", "message", "recoverable"} \subseteq DOMAIN e,
           Failure(e), AllCountAlike(e)
    PROVE  ValidFailure(e)
  <1>1. Identifier(e["code"], 128) /\ Identifier(e["message"], 500)
    BY DEF Failure
  <1>2. CountsAlike(e["code"]) /\ CountsAlike(e["message"])
    BY DEF AllCountAlike
  <1>3. CorrelationId(e["code"]) /\ Filled(e["message"]) /\ JsLen(e["message"].str) <= 500
    BY <1>1, <1>2, IdentifiersAgree
  <1> QED BY <1>3 DEF ValidFailure, Failure

LifecycleTypes ==
    {"agent.response.started", "agent.response.completed", "agent.response.delta",
     "agent.response.failed", "agent.tool.started", "agent.tool.completed",
     "agent.tool.failed"}

LEMMA LifecycleIs ==
    ASSUME NEW e, LifecycleEvent(e)
    PROVE  /\ e["type"].str \in LifecycleTypes
           /\ ResponseFields \subseteq DOMAIN e
           /\ Identifier(e["request_id"], 128) /\ Identifier(e["response_id"], 128)
           /\ "tool_name" \in DOMAIN e =>
                /\ ToolFields \subseteq DOMAIN e
                /\ Identifier(e["tool_call_id"], 128) /\ OneOf(e["tool_name"], ToolNames)
  BY DEF LifecycleEvent, LifecycleTypes

(* The same event with its version.                                        *)
Versioned(e) == With(e, "version", Str("1"))

LEMMA VersionedIs ==
    ASSUME NEW e, "version" \notin DOMAIN e
    PROVE  /\ DOMAIN Versioned(e) = DOMAIN e \union {"version"}
           /\ Versioned(e)["version"] = Str("1")
           /\ \A f \in DOMAIN e : Versioned(e)[f] = e[f]
  BY DEF Versioned, With

LEMMA ResponsesAgree ==
    ASSUME NEW e, LifecycleEvent(e), AllCountAlike(e), NEW m,
           DOMAIN m = DOMAIN e \union {"version"}, \A f \in DOMAIN e : m[f] = e[f],
           e["type"].str \in {"agent.response.started", "agent.response.completed",
                              "agent.response.delta", "agent.response.failed"}
    PROVE  ParseResponse(m)
  <1>1. /\ {"type", "request_id", "response_id"} \subseteq DOMAIN e
        /\ Identifier(e["request_id"], 128) /\ Identifier(e["response_id"], 128)
    BY LifecycleIs DEF ResponseFields
  <1>2. CountsAlike(e["request_id"]) /\ CountsAlike(e["response_id"])
    BY <1>1 DEF AllCountAlike
  <1>3. CorrelationId(e["request_id"]) /\ CorrelationId(e["response_id"])
    BY <1>1, <1>2, IdentifiersAgree
  <1>4. ValidCorrelation(m)
    BY <1>1, <1>3 DEF ValidCorrelation
  <1>5. m["type"] = e["type"]
    BY <1>1
  <1>6. CASE e["type"].str \in {"agent.response.started", "agent.response.completed"}
    <2>1. DOMAIN e = ResponseFields
      BY <1>6 DEF LifecycleEvent
    <2> QED BY <1>4, <1>5, <1>6, <2>1 DEF ParseResponse
  <1>7. CASE e["type"].str = "agent.response.delta"
    <2>1. DOMAIN e = ResponseFields \union {"text"} /\ PyLen(e["text"].str) <= 4000
      BY <1>7 DEF LifecycleEvent
    <2>. NonEmpty(e["text"])
      BY <1>7 DEF LifecycleEvent
    <2>2. "text" \in DOMAIN e
      BY <2>1
    <2>3. PyLen(e["text"].str) = JsLen(e["text"].str)
      BY <2>2 DEF AllCountAlike, CountsAlike, NonEmpty
    <2>4. m["text"] = e["text"] /\ JsLen(e["text"].str) <= 4000
      BY <2>1, <2>2, <2>3
    <2>5. DOMAIN m \subseteq ResponseFields \union {"version"} \union {"text"}
      BY <2>1
    <2> QED BY <1>4, <1>5, <1>7, <2>1, <2>2, <2>4, <2>5 DEF ParseResponse
  <1>8. CASE e["type"].str = "agent.response.failed"
    <2>1. DOMAIN e = ResponseFields \union FailureFields /\ Failure(e)
      BY <1>8 DEF LifecycleEvent
    <2>2. {"code", "message", "recoverable"} \subseteq DOMAIN e
      BY <2>1 DEF FailureFields
    <2>3. ValidFailure(e)
      BY <2>1, <2>2, FailuresAgree
    <2>4. ValidFailure(m)
      BY <2>2, <2>3 DEF ValidFailure
    <2>5. DOMAIN m \subseteq ResponseFields \union {"version"} \union FailureFields
      BY <2>1
    <2> QED BY <1>4, <1>5, <1>8, <2>4, <2>5 DEF ParseResponse
  <1> QED BY <1>6, <1>7, <1>8

LEMMA ToolsAgree ==
    ASSUME NEW e, LifecycleEvent(e), AllCountAlike(e), NEW m,
           DOMAIN m = DOMAIN e \union {"version"}, \A f \in DOMAIN e : m[f] = e[f],
           e["type"].str \in {"agent.tool.started", "agent.tool.completed",
                              "agent.tool.failed"}
    PROVE  ParseTool(m)
  <1>1. ToolFields \subseteq DOMAIN e
    BY DEF LifecycleEvent
  <1>2. {"type", "request_id", "response_id", "tool_call_id", "tool_name"} \subseteq DOMAIN e
    BY <1>1 DEF ToolFields, ResponseFields
  <1>3. /\ Identifier(e["request_id"], 128) /\ Identifier(e["response_id"], 128)
        /\ Identifier(e["tool_call_id"], 128) /\ OneOf(e["tool_name"], ToolNames)
    BY <1>2, LifecycleIs
  <1>4. /\ CountsAlike(e["request_id"]) /\ CountsAlike(e["response_id"])
        /\ CountsAlike(e["tool_call_id"])
    BY <1>2 DEF AllCountAlike
  <1>5. /\ CorrelationId(e["request_id"]) /\ CorrelationId(e["response_id"])
        /\ CorrelationId(e["tool_call_id"])
    BY <1>3, <1>4, IdentifiersAgree
  <1>6. ValidToolCorrelation(m)
    BY <1>2, <1>3, <1>5 DEF ValidToolCorrelation, ValidCorrelation
  <1>7. m["type"] = e["type"]
    BY <1>2
  <1>8. CASE e["type"].str = "agent.tool.started"
    <2>1. DOMAIN e = ToolFields
      BY <1>8 DEF LifecycleEvent
    <2> QED BY <1>6, <1>7, <1>8, <2>1 DEF ParseTool
  <1>9. CASE e["type"].str = "agent.tool.completed"
    <2>1. /\ DOMAIN e \subseteq
                ToolFields \union {"protocol_correlation_id", "disposition"}
          /\ "protocol_correlation_id" \in DOMAIN e =>
               Identifier(e["protocol_correlation_id"], 128)
          /\ "disposition" \in DOMAIN e => OneOf(e["disposition"], Dispositions)
      BY <1>9 DEF LifecycleEvent
    <2>2. "protocol_correlation_id" \in DOMAIN m =>
             CorrelationId(m["protocol_correlation_id"])
      <3> SUFFICES ASSUME "protocol_correlation_id" \in DOMAIN e
                   PROVE  CorrelationId(e["protocol_correlation_id"])
        OBVIOUS
      <3>1. CountsAlike(e["protocol_correlation_id"])
        BY DEF AllCountAlike
      <3> QED BY <2>1, <3>1, IdentifiersAgree
    <2>3. "disposition" \in DOMAIN m => OneOf(m["disposition"], Dispositions)
      BY <2>1
    <2>4. DOMAIN m \subseteq ToolFields \union {"version"}
             \union {"protocol_correlation_id", "disposition"}
      BY <2>1
    <2> QED BY <1>6, <1>7, <1>9, <2>2, <2>3, <2>4 DEF ParseTool
  <1>10. CASE e["type"].str = "agent.tool.failed"
    <2>1. DOMAIN e = ToolFields \union FailureFields /\ Failure(e)
      BY <1>10 DEF LifecycleEvent
    <2>2. {"code", "message", "recoverable"} \subseteq DOMAIN e
      BY <2>1 DEF FailureFields
    <2>3. ValidFailure(e)
      BY <2>1, <2>2, FailuresAgree
    <2>4. ValidFailure(m)
      BY <2>2, <2>3 DEF ValidFailure
    <2>5. DOMAIN m \subseteq ToolFields \union {"version"} \union FailureFields
      BY <2>1
    <2> QED BY <1>6, <1>7, <1>10, <2>4, <2>5 DEF ParseTool
  <1> QED BY <1>8, <1>9, <1>10

(* Every lifecycle event that the agent lets out, with its version.        *)
THEOREM LifecyclesAgree ==
    ASSUME NEW e, LifecycleEvent(e), AllCountAlike(e)
    PROVE  ParseAgentIncoming(With(e, "version", Str("1")))
  <1> DEFINE m == Versioned(e)
  <1>1. e["type"].str \in LifecycleTypes /\ "type" \in DOMAIN e
    BY LifecycleIs DEF ResponseFields
  <1>2. "version" \notin DOMAIN e
    BY <1>1 DEF LifecycleEvent, LifecycleTypes, ResponseFields, ToolFields, FailureFields
  <1>3. /\ DOMAIN m = DOMAIN e \union {"version"} /\ m["version"] = Str("1")
        /\ \A f \in DOMAIN e : m[f] = e[f]
    BY <1>2, VersionedIs
  <1> HIDE DEF m
  <1>4. ParseResponse(m) \/ ParseTool(m)
    BY <1>1, <1>3, ResponsesAgree, ToolsAgree DEF LifecycleTypes
  <1>5. m["type"].str \in LifecycleTypes
    BY <1>1, <1>3
  <1>6. ParseAgentIncoming(m)
    BY <1>3, <1>4, <1>5 DEF ParseAgentIncoming, LifecycleTypes
  <1> QED BY <1>6 DEF m, Versioned

LEMMA ModelsAreRead == \A model \in Models : ParseModelState(model)
  <1>1. ParseModelState(Model(Null, "disabled"))
    BY DEF Model, ParseModelState, IsObj, Obj, Str, Null
  <1>2. ASSUME NEW status \in {"unverified", "available", "failed"}
        PROVE  ParseModelState(Model(Str("gpt"), status))
    <2>1. Filled(Str("gpt")) /\ Str("gpt").str = Trim(Str("gpt").str)
      BY DEF Filled, IsStr, Str, Trim
    <2>2. OneOf(Str(status), {"unverified", "available", "failed"})
      BY DEF OneOf, IsStr, Str
    <2>3. Str(status) # Str("disabled")
      BY DEF Str
    <2> DEFINE v == Model(Str("gpt"), status)
    <2>4. /\ IsObj(v) /\ DOMAIN v.obj = {"name", "status"}
          /\ v.obj["name"] = Str("gpt") /\ v.obj["status"] = Str(status)
      BY DEF Model, IsObj, Obj
    <2> HIDE DEF v
    <2>5. ParseModelState(v)
      BY <2>1, <2>2, <2>3, <2>4 DEF ParseModelState
    <2> QED BY <2>5 DEF v
  <1> QED BY <1>1, <1>2 DEF Models

LEMMA ChatsAreRead ==
    ASSUME NEW role \in {"user", "agent", "system"}, NEW text, Trim(text) # ""
    PROVE  ParseChatMessage(ChatMessage(role, text))
  <1> DEFINE v == ChatMessage(role, text)
  <1>1. IsObj(v) /\ DOMAIN v.obj = {"id", "role", "text", "timestamp"}
    BY DEF ChatMessage, IsObj, Obj
  <1>2. /\ v.obj["id"] = Str("m1") /\ v.obj["role"] = Str(role)
        /\ v.obj["text"] = Str(text) /\ v.obj["timestamp"] = Str("t1")
    BY DEF ChatMessage, Obj
  <1>3. Filled(Str("m1")) /\ Filled(Str(text)) /\ Filled(Str("t1"))
    BY OthersAreFilled DEF Trim
  <1>4. OneOf(Str(role), {"user", "agent", "system"})
    BY DEF OneOf, IsStr, Str
  <1> HIDE DEF v
  <1>5. ParseChatMessage(v)
    BY <1>1, <1>2, <1>3, <1>4 DEF ParseChatMessage
  <1> QED BY <1>5 DEF v

LEMMA RuntimeStatesAreRead ==
    ASSUME NEW phase \in Phases, NEW size \in 0 .. 2, NEW model \in Models,
           NEW r, NEW extra,
           DOMAIN r = {"phase", "device_connected", "queue", "model"} \union extra,
           \A f \in {"phase", "device_connected", "queue", "model"} :
              r[f] = RuntimeState(phase, size, model)[f]
    PROVE  ParseRuntimeState(Obj(r), extra)
  <1>1. /\ r["phase"] = Str(phase) /\ r["device_connected"] = Bool(TRUE)
        /\ r["model"] = model
        /\ r["queue"] = Obj([size |-> Whole(size), capacity |-> Whole(2)])
    BY DEF RuntimeState
  <1>2. IsObj(Obj(r)) /\ Obj(r).obj = r
    BY DEF IsObj, Obj
  <1>3. OneOf(Str(phase), {"idle", "interpreting", "executing", "error"})
    BY DEF OneOf, IsStr, Str, Phases
  <1>4. IsBool(Bool(TRUE))
    BY DEF IsBool, Bool
  <1> DEFINE v == r["queue"]
  <1>5. Exactly(v, {"size", "capacity"})
    BY <1>1 DEF Exactly, Keys, IsObj, Obj
  <1>6. v.obj["size"] = Whole(size) /\ v.obj["capacity"] = Whole(2)
    BY <1>1 DEF Obj
  <1>7. /\ IsCount(Whole(size)) /\ IsCount(Whole(2))
        /\ Whole(2).num > 0 /\ Whole(size).num <= Whole(2).num
    <2>1. size \in Int /\ 0 <= size /\ size <= 2
      OBVIOUS
    <2>2. (2 * size) % 2 = 0 /\ 2 * size >= 0 /\ 2 * size <= 4
      BY <2>1
    <2>3. /\ IsNum(Whole(size)) /\ Whole(size).num = 2 * size
          /\ IsNum(Whole(2)) /\ Whole(2).num = 4
      BY DEF IsNum, Whole
    <2> QED BY <2>2, <2>3 DEF IsCount
  <1> HIDE DEF v
  <1> QED
    BY <1>1, <1>2, <1>3, <1>4, <1>5, <1>6, <1>7, ModelsAreRead
    DEF ParseRuntimeState, v

LEMMA AgentHelloIsRead ==
    ASSUME NEW phase \in Phases, NEW size \in 0 .. 2, NEW model \in Models,
           NEW messages, \A i \in DOMAIN messages : ParseChatMessage(messages[i])
    PROVE  ParseAgentIncoming(Versioned(Of("agent.hello",
             [session_id |-> Str("s1"),
              state |-> Obj(With(RuntimeState(phase, size, model),
                                 "messages", Arr(messages)))])))
  <1> DEFINE r == With(RuntimeState(phase, size, model), "messages", Arr(messages))
             b == [session_id |-> Str("s1"), state |-> Obj(r)]
             m == Versioned(Of("agent.hello", b))
  <1>1. DOMAIN RuntimeState(phase, size, model)
          = {"phase", "device_connected", "queue", "model"}
    BY DEF RuntimeState
  <1>2. /\ DOMAIN r = {"phase", "device_connected", "queue", "model"} \union {"messages"}
        /\ r["messages"] = Arr(messages)
        /\ \A f \in {"phase", "device_connected", "queue", "model"} :
             r[f] = RuntimeState(phase, size, model)[f]
    BY <1>1 DEF With
  <1> HIDE DEF r
  <1>3. ParseRuntimeState(Obj(r), {"messages"})
    BY <1>2, RuntimeStatesAreRead
  <1>4. \A i \in DOMAIN messages : ParseChatMessage(messages[i])
    OBVIOUS
  <1>5. /\ DOMAIN m = {"version", "type"} \union {"session_id", "state"}
        /\ m["version"] = Str("1") /\ m["type"] = Str("agent.hello")
    BY DEF Versioned, Of, With
  <1>6. m["session_id"] = Str("s1") /\ m["state"] = Obj(r)
    BY DEF Versioned, Of, With
  <1>7. /\ Obj(r).obj = r /\ IsArr(Arr(messages)) /\ Arr(messages).arr = messages
        /\ Str("agent.hello").str = "agent.hello"
    BY DEF Obj, IsArr, Arr, Str
  <1> HIDE DEF m
  <1>8. ParseAgentIncoming(m)
    BY <1>2, <1>3, <1>4, <1>5, <1>6, <1>7, TextsAreFilled DEF ParseAgentIncoming
  <1> QED BY <1>8 DEF m, b, r

LEMMA AgentStateIsRead ==
    ASSUME NEW phase \in Phases, NEW size \in 0 .. 2, NEW model \in Models
    PROVE  ParseAgentIncoming(Versioned(Of("agent.state",
             [state |-> Obj(RuntimeState(phase, size, model))])))
  <1> DEFINE r == RuntimeState(phase, size, model)
             b == [state |-> Obj(r)]
             m == Versioned(Of("agent.state", b))
  <1>1. DOMAIN r = {"phase", "device_connected", "queue", "model"} \union {}
    BY DEF RuntimeState
  <1> HIDE DEF r
  <1>2. ParseRuntimeState(Obj(r), {})
    BY <1>1, RuntimeStatesAreRead DEF r
  <1>3. /\ DOMAIN m = {"version", "type"} \union {"state"}
        /\ m["version"] = Str("1") /\ m["type"] = Str("agent.state")
        /\ m["state"] = Obj(r)
    BY DEF Versioned, Of, With
  <1>4. Str("agent.state").str = "agent.state"
    BY DEF Str
  <1> HIDE DEF m
  <1>5. ParseAgentIncoming(m)
    BY <1>2, <1>3, <1>4 DEF ParseAgentIncoming
  <1> QED BY <1>5 DEF m, b, r

LEMMA AgentMessageIsRead ==
    ASSUME NEW role \in {"user", "agent", "system"}, NEW text, Trim(text) # ""
    PROVE  ParseAgentIncoming(Versioned(Of("agent.message",
             [message |-> ChatMessage(role, text)])))
  <1> DEFINE b == [message |-> ChatMessage(role, text)]
             m == Versioned(Of("agent.message", b))
  <1>1. /\ DOMAIN m = {"version", "type"} \union {"message"}
        /\ m["version"] = Str("1") /\ m["type"] = Str("agent.message")
        /\ m["message"] = ChatMessage(role, text)
    BY DEF Versioned, Of, With
  <1>2. Str("agent.message").str = "agent.message"
    BY DEF Str
  <1> HIDE DEF m
  <1>3. ParseAgentIncoming(m)
    BY <1>1, <1>2, ChatsAreRead DEF ParseAgentIncoming
  <1> QED BY <1>3 DEF m, b

LEMMA AcceptedIsRead ==
    ParseAgentIncoming(Versioned(Of("agent.accepted", [request_id |-> Str("c128")])))
  <1> DEFINE b == [request_id |-> Str("c128")]
             m == Versioned(Of("agent.accepted", b))
  <1>1. /\ DOMAIN m = {"version", "type"} \union {"request_id"}
        /\ m["version"] = Str("1") /\ m["type"] = Str("agent.accepted")
        /\ m["request_id"] = Str("c128")
    BY DEF Versioned, Of, With
  <1>2. Str("agent.accepted").str = "agent.accepted"
    BY DEF Str
  <1>3. CorrelationId(Str("c128"))
    BY DEF CorrelationId, IsStr, Str, Trim, JsLen, PyLen, Faces, Lengths
  <1> HIDE DEF m
  <1>4. ParseAgentIncoming(m)
    BY <1>1, <1>2, <1>3 DEF ParseAgentIncoming
  <1> QED BY <1>4 DEF m, b

LEMMA AgentErrorIsRead ==
    ASSUME NEW e \in ErrorReplies("c128"), ~Blank(e["message"])
    PROVE  ParseAgentIncoming(Versioned(Of("agent.error", e)))
  <1> DEFINE m == Versioned(Of("agent.error", e))
  <1>1. /\ \/ DOMAIN e = FailureFields
           \/ DOMAIN e = FailureFields \union {"request_id"}
        /\ e["code"] = Str("offline") /\ e["message"] = Str(e["message"].str)
        /\ e["recoverable"] = Bool(FALSE)
        /\ "request_id" \in DOMAIN e => e["request_id"] = Str("c128")
    BY RepliesAre
  <1>2. Filled(e["message"])
    BY <1>1, OthersAreFilled DEF Blank
  <1>3. /\ DOMAIN m = {"version", "type"} \union DOMAIN e
        /\ m["version"] = Str("1")
    BY DEF Versioned, Of, With
  <1>4. m["type"] = Str("agent.error")
    BY DEF Versioned, Of, With
  <1>5. \A f \in DOMAIN e \ {"version", "type"} : m[f] = e[f]
    BY DEF Versioned, Of, With
  <1>6. Str("agent.error").str = "agent.error"
    BY DEF Str
  <1>7. CorrelationId(Str("c128")) /\ IsBool(Bool(FALSE))
    <2>1. CorrelationId(Str("c128"))
      BY DEF CorrelationId, IsStr, Str, Trim, JsLen, PyLen, Faces, Lengths
    <2> QED BY <2>1 DEF IsBool, Bool
  <1> HIDE DEF m
  <1>8. {"code", "message", "recoverable"} \subseteq DOMAIN e
    BY <1>1 DEF FailureFields
  <1>9. /\ Filled(m["code"]) /\ Filled(m["message"]) /\ IsBool(m["recoverable"])
    BY <1>1, <1>2, <1>5, <1>7, <1>8, TextsAreFilled
  <1>10. "request_id" \in DOMAIN m => CorrelationId(m["request_id"])
    BY <1>1, <1>3, <1>5, <1>7
  <1>11. \/ DOMAIN m = {"version", "type"} \union FailureFields
         \/ DOMAIN m = {"version", "type"} \union (FailureFields \union {"request_id"})
    BY <1>1, <1>3
  <1>12. ParseAgentIncoming(m)
    BY <1>3, <1>4, <1>6, <1>9, <1>10, <1>11 DEF ParseAgentIncoming
  <1> QED BY <1>12 DEF m

LEMMA AgentTypesDiffer ==
    /\ Str("agent.hello") # Str("agent.message") /\ Str("agent.hello") # Str("agent.error")
    /\ Str("agent.message") # Str("agent.error")
    /\ \A type : Str(type).str = type
  BY DEF Str

(* Every message that the agent lets out, but those whose texts the page   *)
(* counts or strips differently.                                           *)
THEOREM AgentAgrees ==
    ASSUME NEW m \in FromAgent, ~KnownFromAgent(m)
    PROVE  ParseAgentIncoming(m)
  <1> DEFINE hello(phase, size, model, messages) ==
        Of("agent.hello",
           [session_id |-> Str("s1"),
            state |-> Obj(With(RuntimeState(phase, size, model),
                               "messages", Arr(messages)))])
      pair(text) == <<ChatMessage("user", "hi"), ChatMessage("agent", text)>>
      said == {<<>>} \union {pair(text) : text \in Said}
      state(phase, size, model) ==
        Of("agent.state", [state |-> Obj(RuntimeState(phase, size, model))])
      message(role, text) == Of("agent.message", [message |-> ChatMessage(role, text)])
      errors == ErrorReplies("c128")
      M1 == {hello(phase, size, model, messages) :
               phase \in Phases, size \in 0 .. 2, model \in Models, messages \in said}
      M2 == {state(phase, size, model) :
               phase \in Phases, size \in 0 .. 2, model \in Models}
      M3 == {message(role, text) : role \in {"user", "agent", "system"}, text \in Said}
      M4 == {Of("agent.accepted", [request_id |-> Str("c128")])}
      M5 == {Of("agent.error", e) : e \in errors}
      all == Lifecycle \union M1 \union M2 \union M3 \union M4 \union M5
  <1>1. ASSUME NEW e \in Lifecycle, m = Versioned(e)
        PROVE  ParseAgentIncoming(m)
    <2>1. LifecycleEvent(e)
      BY DEF Lifecycle
    <2>2. e["type"].str \in LifecycleTypes /\ "type" \in DOMAIN e
      BY <2>1, LifecycleIs DEF ResponseFields
    <2>3. "version" \notin DOMAIN e
      BY <2>1, <2>2 DEF LifecycleEvent, LifecycleTypes, ResponseFields, ToolFields,
                        FailureFields
    <2>4. DOMAIN m = DOMAIN e \union {"version"} /\ \A f \in DOMAIN e : m[f] = e[f]
      BY <1>1, <2>3, VersionedIs
    <2>5. \A type \in {"agent.message", "agent.hello", "agent.error"} :
             m["type"] # Str(type)
      BY <2>2, <2>4, AgentTypesDiffer DEF LifecycleTypes
    <2>6. \A f \in DOMAIN m : CountsAlike(m[f])
      BY <2>5 DEF KnownFromAgent
    <2>7. AllCountAlike(e)
      BY <2>4, <2>6 DEF AllCountAlike
    <2> QED BY <1>1, <2>1, <2>7, LifecyclesAgree DEF Versioned
  <1>2. ASSUME NEW phase \in Phases, NEW size \in 0 .. 2, NEW model \in Models,
               NEW messages \in said, m = Versioned(hello(phase, size, model, messages))
        PROVE  ParseAgentIncoming(m)
    <2> DEFINE r == With(RuntimeState(phase, size, model), "messages", Arr(messages))
    <2>1. m["type"] = Str("agent.hello") /\ m["state"] = Obj(r)
      BY <1>2 DEF Versioned, Of, With
    <2>2. r["messages"] = Arr(messages)
      BY DEF With
    <2>3. m["state"].obj = r /\ Arr(messages).arr = messages
      BY <2>1 DEF Obj, Arr
    <2> HIDE DEF r
    <2>4. \A i \in DOMAIN messages : ~Blank(messages[i].obj["text"])
      BY <2>1, <2>2, <2>3, AgentTypesDiffer DEF KnownFromAgent
    <2>5. \A i \in DOMAIN messages : ParseChatMessage(messages[i])
      <3>1. CASE messages = <<>>
        BY <3>1
      <3>2. ASSUME NEW text \in Said, messages = pair(text)
            PROVE  \A i \in DOMAIN messages : ParseChatMessage(messages[i])
        <4>1. /\ DOMAIN messages = {1, 2} /\ messages[1] = ChatMessage("user", "hi")
              /\ messages[2] = ChatMessage("agent", text)
          BY <3>2
        <4>2. messages[2].obj["text"] = Str(text)
          BY <4>1 DEF ChatMessage, Obj
        <4>3. Trim(text) # ""
          BY <2>4, <4>1, <4>2, StrIs DEF Blank
        <4>a. Trim("hi") # ""
          BY DEF Trim
        <4>4. ParseChatMessage(messages[1])
          BY <4>1, <4>a, ChatsAreRead
        <4>5. ParseChatMessage(messages[2])
          BY <4>1, <4>3, ChatsAreRead
        <4> QED BY <4>1, <4>4, <4>5
      <3> QED BY <3>1, <3>2
    <2>6. ParseAgentIncoming(Versioned(hello(phase, size, model, messages)))
      BY <2>5, AgentHelloIsRead
    <2> QED BY <1>2, <2>6
  <1>3. ASSUME NEW phase \in Phases, NEW size \in 0 .. 2, NEW model \in Models,
               m = Versioned(state(phase, size, model))
        PROVE  ParseAgentIncoming(m)
    BY <1>3, AgentStateIsRead
  <1>4. ASSUME NEW role \in {"user", "agent", "system"}, NEW text \in Said,
               m = Versioned(message(role, text))
        PROVE  ParseAgentIncoming(m)
    <2>1. m["type"] = Str("agent.message") /\ m["message"] = ChatMessage(role, text)
      BY <1>4 DEF Versioned, Of, With
    <2>2. m["message"].obj["text"] = Str(text)
      BY <2>1 DEF ChatMessage, Obj
    <2>3. Trim(text) # ""
      BY <2>1, <2>2, AgentTypesDiffer DEF KnownFromAgent, Blank
    <2>4. ParseAgentIncoming(Versioned(message(role, text)))
      BY <2>3, AgentMessageIsRead
    <2> QED BY <1>4, <2>4
  <1>5. ASSUME NEW e \in errors, m = Versioned(Of("agent.error", e))
        PROVE  ParseAgentIncoming(m)
    <2>1. "message" \in DOMAIN e
      BY RepliesAre
    <2>2. m["type"] = Str("agent.error") /\ m["message"] = e["message"]
      BY <1>5, <2>1 DEF Versioned, Of, With
    <2>3. ~Blank(e["message"])
      BY <2>2, AgentTypesDiffer DEF KnownFromAgent
    <2>4. ParseAgentIncoming(Versioned(Of("agent.error", e)))
      BY <2>3, AgentErrorIsRead
    <2> QED BY <1>5, <2>4
  <1>6. FromAgent = {Versioned(e) : e \in all}
    BY DEF FromAgent, Versioned
  <1> HIDE DEF hello, said, state, message, errors
  <1>7. PICK e \in all : m = Versioned(e)
    BY <1>6
  <1>8. CASE e \in Lifecycle
    BY <1>1, <1>7, <1>8
  <1>9. CASE e \in M1
    BY <1>2, <1>7, <1>9
  <1>10. CASE e \in M2
    BY <1>3, <1>7, <1>10
  <1>11. CASE e \in M3
    BY <1>4, <1>7, <1>11
  <1>12. CASE e \in M4
    BY <1>7, <1>12, AcceptedIsRead
  <1>13. CASE e \in M5
    BY <1>5, <1>7, <1>13
  <1> QED BY <1>8, <1>9, <1>10, <1>11, <1>12, <1>13

-----------------------------------------------------------------------------
(* What the composer may submit is accepted by the agent.                  *)
THEOREM SubmissionsAgree ==
    ASSUME NEW text, MaySubmit(text), ~KnownFromComposer(CreateAgentSubmission(text))
    PROVE  PySubmission(CreateAgentSubmission(text))
  <1> DEFINE t == Trim(text)
             m == CreateAgentSubmission(text)
  <1>1. t # ""
    BY DEF MaySubmit
  <1>e. JsLen(t) <= 500
    BY DEF MaySubmit
  <1>a. m["text"].str = t
    BY DEF CreateAgentSubmission, Str
  <1>b. Strip(t) # ""
    BY <1>a DEF KnownFromComposer
  <1>c. t # " hi "
    BY DEF Trim
  <1> HIDE DEF t
  <1>d. t \notin {" ", "U+001C"}
    <2>1. Strip(" ") = "" /\ Strip("U+001C") = ""
      BY DEF Strip
    <2> QED BY <1>b, <2>1
  <1>2. Strip(t) = t
    BY <1>c, <1>d, Zenon DEF Strip
  <1>3. PyLen(t) <= 500
    <2>1. CASE t \in Faces
      <3>a. PyLen("faces128") = 128 /\ PyLen("faces4000") = 4000
        BY DEF PyLen, Lengths
      <3>1. PyLen(t) = 128 \/ PyLen(t) = 4000
        BY <2>1, <3>a DEF Faces
      <3>2. JsLen(t) = 2 * PyLen(t)
        BY <2>1 DEF JsLen
      <3>3. ~(8000 <= 500) /\ 128 <= 500
        OBVIOUS
      <3> QED BY <1>e, <3>1, <3>2, <3>3
    <2>2. CASE t \notin Faces
      BY <1>e, <2>2 DEF JsLen
    <2> QED BY <2>1, <2>2
  <1>4. /\ DOMAIN m = {"version", "id", "type", "timestamp", "text"}
        /\ m["version"] = Str("1") /\ m["type"] = Str("agent.submit_text")
    BY DEF CreateAgentSubmission
  <1>5. /\ m["id"] = Str("r1") /\ m["timestamp"] = Str("t1") /\ m["text"] = Str(t)
    BY DEF CreateAgentSubmission, t
  <1>6. Identifier(Str("r1"), 128)
    BY DEF Identifier, IsStr, Str, Strip, PyLen, Lengths
  <1>7. /\ IsStr(Str("t1")) /\ Strip(Str("t1").str) # ""
        /\ IsStr(Str(t)) /\ Str(t).str = t
    BY DEF IsStr, Str, Strip
  <1> HIDE DEF m
  <1>8. PySubmission(m)
    BY <1>1, <1>2, <1>3, <1>4, <1>5, <1>6, <1>7 DEF PySubmission
  <1> QED BY <1>8 DEF m

-----------------------------------------------------------------------------
LEMMA EnvelopeIs ==
    ASSUME NEW type, NEW p
    PROVE  LET e == Envelope(type, p) IN
           /\ DOMAIN e = EnvelopeFields
           /\ e["version"] = Str("1") /\ e["id"] = Str("id1") /\ e["type"] = Str(type)
           /\ e["timestamp"] = Str("t1") /\ e["device_id"] = Str("lefly")
           /\ e["payload"] = Obj(p)
  BY DEF Envelope, EnvelopeFields

LEMMA IdentifiersMatch ==
    /\ Matches(Str("1"), Version) /\ Matches(Str("id1"), UUID)
    /\ Matches(Str("t1"), TIMESTAMP) /\ Matches(Str("lefly"), DEVICE_ID)
  BY DEF Matches, IsStr, Str, Version, UUID, TIMESTAMP, DEVICE_ID

LEMMA EnvelopesAreValid ==
    ASSUME NEW type \in EVENT_TYPES, NEW p
    PROVE  ValidEnvelope(Envelope(type, p), {"correlation_id"})
  <1> DEFINE e == Envelope(type, p)
  <1>1. /\ DOMAIN e = {"version", "id", "type", "timestamp", "device_id", "payload"}
        /\ e["version"] = Str("1") /\ e["id"] = Str("id1") /\ e["type"] = Str(type)
        /\ e["timestamp"] = Str("t1") /\ e["device_id"] = Str("lefly")
        /\ e["payload"] = Obj(p)
    BY EnvelopeIs DEF EnvelopeFields
  <1>2. Matches(Str(type), MESSAGE_TYPE)
    BY StrIs DEF Matches, MESSAGE_TYPE
  <1> HIDE DEF e
  <1>3. Keys(e, {"version", "id", "type", "timestamp", "device_id", "payload"},
             {"correlation_id"})
    BY <1>1 DEF Keys
  <1>4. ValidEnvelope(e, {"correlation_id"})
    BY <1>1, <1>2, <1>3, IdentifiersMatch, ObjIs DEF ValidEnvelope
  <1> QED BY <1>4 DEF e

(* A sensor event that carries a good payload is read.                     *)
LEMMA SensorEventsAreRead ==
    ASSUME NEW type \in Sensors, NEW p, IsSensor(type, p), "extensions" \notin DOMAIN p
    PROVE  ParseDeviceEvent(Envelope(type, p))
  <1> DEFINE e == Envelope(type, p)
  <1>1. type \in EVENT_TYPES /\ type \notin Correlated
    BY DEF Sensors, EVENT_TYPES, Correlated
  <1>2. /\ DOMAIN e = EnvelopeFields /\ e["type"].str = type /\ e["payload"].obj = p
        /\ ValidEnvelope(e, {"correlation_id"})
    BY <1>1, EnvelopeIs, EnvelopesAreValid, ObjIs, StrIs
  <1>3. "correlation_id" \notin DOMAIN e
    BY <1>2 DEF EnvelopeFields
  <1>4. ValidExtensions(p)
    BY DEF ValidExtensions
  <1> HIDE DEF e
  <1>5. ValidEventPayload(e)
    BY <1>1, <1>2, <1>3, <1>4 DEF ValidEventPayload, Sensors
  <1>6. ParseDeviceEvent(e)
    BY <1>2, <1>5 DEF ParseDeviceEvent
  <1> QED BY <1>6 DEF e

(* The event of every touch that the simulator accepts.                    *)
LEMMA TouchesAreRead ==
    ASSUME NEW p, NEW e \in TouchEvent(p)
    PROVE  ParseDeviceEvent(e)
  <1> DEFINE pressed == IF "pressed" \in DOMAIN p THEN p["pressed"] ELSE Bool(TRUE)
             q == [position |-> p["position"], pressed |-> pressed]
  <1>1. /\ PyEnum(p["position"], {"left", "middle", "right"})
        /\ "pressed" \in DOMAIN p => IsBool(p["pressed"])
        /\ e = Envelope("sensor.touch", q)
    BY DEF TouchEvent
  <1>2. IsBool(pressed)
    BY <1>1 DEF IsBool, Bool
  <1> HIDE DEF pressed
  <1>3. /\ DOMAIN q = {"position", "pressed"} /\ q["position"] = p["position"]
        /\ q["pressed"] = pressed
    OBVIOUS
  <1> HIDE DEF q
  <1>4. Keys(q, {"position", "pressed"}, {"extensions"}) /\ "extensions" \notin DOMAIN q
    BY <1>3 DEF Keys
  <1>5. OneOf(q["position"], {"left", "middle", "right"})
    BY <1>1, <1>3 DEF PyEnum, OneOf
  <1>6. IsSensor("sensor.touch", q)
    BY <1>2, <1>3, <1>4, <1>5 DEF IsSensor
  <1> QED BY <1>1, <1>4, <1>6, SensorEventsAreRead DEF Sensors

(* The event of every sighting that the simulator accepts.                 *)
LEMMA SightingsAreRead ==
    ASSUME NEW p, JsonFields(p), NEW type \in {"gesture", "face"},
           NEW e \in VisionEvent(type, p)
    PROVE  ParseDeviceEvent(e)
  <1> DEFINE given(f) == IF f \in DOMAIN p THEN p[f] ELSE Null
             q == [id |-> p["id"], label |-> given("label"),
                   confidence |-> given("confidence")]
             name == VisionType[type]
  <1>1. /\ "id" \in DOMAIN p /\ PyInteger(p["id"], 0)
        /\ \/ given("label") = Null
           \/ IsStr(given("label")) /\ Strip(given("label").str) # ""
        /\ given("confidence") = Null \/ PyNumberRange(given("confidence"), 0, 1)
        /\ e = Envelope(name, q)
    BY DEF VisionEvent
  <1>2. name \in {"sensor.vision.gesture", "sensor.vision.face"}
    BY DEF VisionType
  <1>3. Integer(p["id"], 0)
    BY <1>1, IntegersAgree DEF JsonFields
  <1> HIDE DEF given, name
  <1>4. /\ DOMAIN q = {"id", "label", "confidence"} /\ q["id"] = p["id"]
        /\ q["label"] = given("label") /\ q["confidence"] = given("confidence")
    OBVIOUS
  <1> HIDE DEF q
  <1>5. /\ Keys(q, {"id", "label", "confidence"}, {"extensions"})
        /\ "extensions" \notin DOMAIN q
    BY <1>4 DEF Keys
  <1>6. /\ q["label"] # Null => NonEmpty(q["label"])
        /\ q["confidence"] # Null => Between(q["confidence"], 0, 1)
    BY <1>1, <1>4 DEF Strip, NonEmpty, PyNumberRange, Between
  <1>7. IsSensor(name, q)
    BY <1>2, <1>3, <1>4, <1>5, <1>6 DEF IsSensor
  <1> QED BY <1>1, <1>2, <1>5, <1>7, SensorEventsAreRead DEF Sensors

(* Every injection that the simulator accepts becomes an event that the    *)
(* page reads.                                                             *)
THEOREM InjectionsAgree ==
    ASSUME NEW i, i.sensor_type \in {"touch", "gesture", "face"}, JsonFields(i.payload),
           NEW e \in SensorEvents(i)
    PROVE  ParseDeviceEvent(e)
  BY TouchesAreRead, SightingsAreRead DEF SensorEvents

-----------------------------------------------------------------------------
(* Commands                                                                *)

(* Every command without a correlation_id, as a page sends it, that        *)
(* DeviceCommand.from_dict accepts is one that parseDeviceCommand takes,   *)
(* unless its extensions are null or its time has digits beyond ASCII.     *)
THEOREM CommandsAgree ==
    ASSUME NEW c, JsonFields(c), PyCommand(c), "correlation_id" \notin DOMAIN c,
           ~NullExtensions(c["payload"].obj), c["timestamp"] # Str("wide")
    PROVE  ParseDeviceCommand(c)
  <1> DEFINE type == c["type"].str
             p == c["payload"].obj
  <1>1. /\ DOMAIN c = EnvelopeFields
        /\ Matches(c["version"], {"1"}) /\ Matches(c["id"], UUID)
        /\ Matches(c["type"], MESSAGE_TYPE) /\ Matches(c["timestamp"], Timestamp)
        /\ Matches(c["device_id"], DEVICE_ID) /\ IsObj(c["payload"])
    BY FormatsAgree DEF PyCommand, PyEnvelope, PyKeys, PyMatch, Matches
  <1>2. IsJson(c["version"]) /\ IsJson(c["payload"])
    BY <1>1 DEF JsonFields, EnvelopeFields
  <1>3. c["version"] = Str("1") /\ JsonFields(p)
    BY <1>1, <1>2, KindsAre DEF Matches
  <1>4. Keys(c, {"version", "id", "type", "timestamp", "device_id", "payload"}, {})
    BY <1>1 DEF Keys, EnvelopeFields
  <1>a. Matches(c["timestamp"], TIMESTAMP)
    <2>1. IsJson(c["timestamp"])
      BY <1>1 DEF JsonFields, EnvelopeFields
    <2>2. c["timestamp"] = Str(c["timestamp"].str)
      BY <1>1, <2>1, KindsAre DEF Matches
    <2> QED BY <1>1, <2>2, FormatsAgree DEF Matches
  <1>5. ValidEnvelope(c, {})
    BY <1>1, <1>a, <1>3, <1>4 DEF ValidEnvelope
  <1>6. ASSUME type \in CommandTypes
        PROVE  ValidCommandPayload(type, p)
    <2>1. /\ PyKeys(p, CommandFields(type), {"extensions"}) /\ PyExtensions(p)
          /\ "name" \in DOMAIN p => PyMatch(p["name"], ActionId)
          /\ "joints" \in DOMAIN p =>
               /\ PyJointNumbers(p["joints"]) /\ DOMAIN p["joints"].obj # {}
               /\ PyIntegerRange(p["duration_ms"], 1, 60000)
          /\ "target" \in DOMAIN p => p["target"] = Str("head_matrix")
          /\ "color" \in DOMAIN p => PyMatch(p["color"], Color)
          /\ "pixels" \in DOMAIN p => PyColors(p["pixels"])
          /\ "brightness" \in DOMAIN p => PyNumberRange(p["brightness"], 0, 1)
          /\ "mode" \in DOMAIN p => PyEnum(p["mode"], StatusModes)
      BY <1>6 DEF PyCommand
    <2>2. ValidExtensions(p) /\ Keys(p, CommandFields(type), {"extensions"})
      BY <2>1, ExtensionsAgree DEF PyKeys, Keys
    <2> HIDE DEF type, p
    <2>3. CASE type = "motion.play"
      <3>1. Keys(p, {"name"}, {"extensions"})
        BY <2>2, <2>3 DEF CommandFields
      <3>2. Matches(p["name"], ACTION_ID)
        BY <2>1, <3>1, FormatsAgree DEF Keys, PyMatch, Matches
      <3> QED BY <2>2, <2>3, <3>1, <3>2 DEF ValidCommandPayload
    <2>4. CASE type \in {"motion.relative_move", "motion.absolute_move"}
      <3>1. Keys(p, {"joints", "duration_ms"}, {"extensions"})
        BY <2>2, <2>4 DEF CommandFields
      <3>2. "joints" \in DOMAIN p /\ "duration_ms" \in DOMAIN p
        BY <3>1 DEF Keys
      <3>3. /\ IsObj(p["joints"]) /\ DOMAIN p["joints"].obj # {}
            /\ \A name \in DOMAIN p["joints"].obj :
                 name \in ACTION_ID /\ IsNum(p["joints"].obj[name])
        BY <2>1, <3>2, FormatsAgree DEF PyJointNumbers
      <3>4. /\ PyInteger(p["duration_ms"], 1) /\ p["duration_ms"].num <= 2 * 60000
        BY <2>1, <3>2 DEF PyIntegerRange
      <3>5. IntegerIn(p["duration_ms"], 1, 60000)
        BY <1>3, <3>2, <3>4, IntegersAgree DEF IntegerIn, JsonFields
      <3>6. CASE type = "motion.relative_move"
        BY <2>2, <3>6, <3>1, <3>3, <3>5 DEF ValidCommandPayload, JointNumbers
      <3>7. CASE type = "motion.absolute_move"
        BY <2>2, <3>7, <3>1, <3>3, <3>5 DEF ValidCommandPayload, JointNumbers
      <3> QED BY <2>4, <3>6, <3>7
    <2>5. CASE type = "light.solid"
      <3>1. Keys(p, {"target", "color"}, {"extensions"})
        BY <2>2, <2>5 DEF CommandFields
      <3>2. p["target"] = Str("head_matrix") /\ Matches(p["color"], COLOR)
        BY <2>1, <3>1, FormatsAgree DEF Keys, PyMatch, Matches
      <3> QED BY <2>2, <2>5, <3>1, <3>2 DEF ValidCommandPayload
    <2>6. CASE type = "light.paint"
      <3>1. Keys(p, {"target", "pixels"}, {"extensions"})
        BY <2>2, <2>6 DEF CommandFields
      <3>2. p["target"] = Str("head_matrix") /\ PyColors(p["pixels"])
        BY <2>1, <3>1 DEF Keys
      <3>3. Colors(p["pixels"])
        BY <3>2, FieldsAgree
      <3> QED BY <2>2, <2>6, <3>1, <3>2, <3>3 DEF ValidCommandPayload
    <2>7. CASE type = "light.brightness"
      <3>1. Keys(p, {"target", "brightness"}, {"extensions"})
        BY <2>2, <2>7 DEF CommandFields
      <3>2. p["target"] = Str("head_matrix") /\ Between(p["brightness"], 0, 1)
        BY <2>1, <3>1 DEF Keys, PyNumberRange, Between
      <3> QED BY <2>2, <2>7, <3>1, <3>2 DEF ValidCommandPayload
    <2>8. CASE type = "status.set"
      <3>1. Keys(p, {"mode"}, {"extensions"})
        BY <2>2, <2>8 DEF CommandFields
      <3>2. OneOf(p["mode"], STATUS_MODES)
        BY <2>1, <3>1, FormatsAgree DEF Keys, PyEnum, OneOf
      <3> QED BY <2>2, <2>8, <3>1, <3>2 DEF ValidCommandPayload
    <2>9. CASE type \in {"device.rest", "device.get_state"}
      <3>1. Keys(p, {}, {"extensions"})
        BY <2>2, <2>9 DEF CommandFields
      <3>2. CASE type = "device.rest"
        BY <2>2, <3>1, <3>2 DEF ValidCommandPayload
      <3>3. CASE type = "device.get_state"
        BY <2>2, <3>1, <3>3 DEF ValidCommandPayload
      <3> QED BY <2>9, <3>2, <3>3
    <2> QED
      BY <1>6, <2>3, <2>4, <2>5, <2>6, <2>7, <2>8, <2>9 DEF CommandTypes, type
  <1> QED BY <1>5, <1>6, FormatsAgree DEF ParseDeviceCommand

(* What PyCommand asks of a payload, of the fields that it has.            *)
GoodPayload(type, p) ==
    /\ type \in CommandTypes /\ DOMAIN p = CommandFields(type) /\ JsonFields(p)
    /\ "name" \in DOMAIN p => PyMatch(p["name"], ActionId)
    /\ "joints" \in DOMAIN p =>
         /\ PyJointNumbers(p["joints"]) /\ DOMAIN p["joints"].obj # {}
         /\ PyIntegerRange(p["duration_ms"], 1, 60000)
    /\ "target" \in DOMAIN p => p["target"] = Str("head_matrix")
    /\ "color" \in DOMAIN p => PyMatch(p["color"], Color)
    /\ "brightness" \in DOMAIN p => PyNumberRange(p["brightness"], 0, 1)

Commands == {"motion.play", "motion.absolute_move", "light.solid",
             "light.brightness", "device.rest"}

LEMMA SentIsAccepted ==
    ASSUME NEW s, IsJson(s["device_id"]), Matches(s["device_id"], DEVICE_ID),
           NEW type \in Commands, NEW p, GoodPayload(type, p), NEW motionStart,
           NEW c \in SendCommand(s, type, p, motionStart)
    PROVE  PyCommand(c) /\ ParseDeviceCommand(c)
  <1> DEFINE e == Envelope(type, p)
             device == s["device_id"]
  <1>1. c = With(e, "device_id", device)
    BY DEF SendCommand
  <1>2. /\ DOMAIN e = EnvelopeFields
        /\ e["version"] = Str("1") /\ e["id"] = Str("id1") /\ e["type"] = Str(type)
        /\ e["timestamp"] = Str("t1") /\ e["payload"] = Obj(p)
    BY EnvelopeIs
  <1> HIDE DEF e
  <1>3. /\ DOMAIN c = EnvelopeFields /\ c["device_id"] = device
        /\ \A f \in EnvelopeFields \ {"device_id"} : c[f] = e[f]
    BY <1>1, <1>2 DEF With, EnvelopeFields
  <1>4. /\ c["version"] = Str("1") /\ c["id"] = Str("id1") /\ c["type"] = Str(type)
        /\ c["timestamp"] = Str("t1") /\ c["payload"] = Obj(p)
    BY <1>2, <1>3 DEF EnvelopeFields
  <1>5. type \in CommandTypes /\ type \in MessageType
    BY DEF GoodPayload, CommandTypes, MessageType
  <1>6. /\ PyMatch(c["version"], Version) /\ PyMatch(c["id"], Uuid)
        /\ PyMatch(c["type"], MessageType) /\ PyMatch(c["timestamp"], Timestamp)
    BY <1>4, <1>5, StrIs DEF PyMatch, Version, Uuid, Timestamp
  <1>7. PyMatch(c["device_id"], DeviceId)
    BY <1>3, FormatsAgree DEF PyMatch, Matches
  <1>8. "correlation_id" \notin DOMAIN c /\ ~HasCorrelation(c)
    BY <1>3 DEF EnvelopeFields, HasCorrelation
  <1>9. PyEnvelope(c)
    BY <1>3, <1>4, <1>6, <1>7, <1>8, ObjIs DEF PyEnvelope, PyKeys
  <1>10. /\ "extensions" \notin DOMAIN p /\ "pixels" \notin DOMAIN p
         /\ "mode" \notin DOMAIN p /\ PyKeys(p, CommandFields(type), {"extensions"})
    <2>1. /\ "extensions" \notin CommandFields(type)
          /\ "pixels" \notin CommandFields(type) /\ "mode" \notin CommandFields(type)
      BY DEF Commands, CommandFields
    <2> QED BY <2>1 DEF GoodPayload, PyKeys
  <1>11. PyExtensions(p) /\ ~NullExtensions(p)
    BY <1>10 DEF PyExtensions, NullExtensions
  <1>12. c["type"].str = type /\ c["payload"].obj = p
    BY <1>4, ObjIs, StrIs
  <1>13. PyCommand(c)
    BY <1>8, <1>9, <1>10, <1>11, <1>12 DEF PyCommand, GoodPayload
  <1>14. JsonFields(c)
    <2>1. IsJson(Str("1")) /\ IsJson(Str("id1")) /\ IsJson(Str("t1"))
      BY LeavesAreJson
    <2>2. IsJson(Str(type))
      BY <1>5, LeavesAreJson
    <2>3. IsJson(Obj(p))
      BY ObjectsAreJson DEF GoodPayload
    <2>4. ASSUME NEW f \in EnvelopeFields
          PROVE  IsJson(c[f])
      BY <1>3, <1>4, <2>1, <2>2, <2>3 DEF EnvelopeFields
    <2> QED BY <1>3, <2>4 DEF JsonFields
  <1>a. c["timestamp"] # Str("wide")
    BY <1>4 DEF Str
  <1>15. ParseDeviceCommand(c)
    BY <1>8, <1>11, <1>12, <1>13, <1>14, <1>a, CommandsAgree, Zenon
  <1> QED BY <1>13, <1>15

(* What the controls take from a state.                                    *)
Drawable(s) ==
    /\ IsJson(s["device_id"]) /\ Matches(s["device_id"], DEVICE_ID)
    /\ LET joints == s["motion"].obj["joints"].obj IN
         \A name \in DOMAIN joints :
            /\ name \in ActionId
            /\ \A f \in {"pos", "min", "max"} : joints[name].obj[f].num \in Int
    /\ LET reported == s["light"].obj IN
         /\ IsJson(reported["pixels"].arr[1]) /\ PyMatch(reported["pixels"].arr[1], Color)
         /\ reported["brightness"].num \in 0 .. 2
    /\ \A p \in ToSet(s["capabilities"].obj["motion"].obj["presets"].arr) :
         IsJson(p.obj["name"]) /\ PyMatch(p.obj["name"], ActionId)

LEMMA StatesAreDrawable ==
    ASSUME NEW s, JsonFields(s), NEW device, PyState(Obj(s), device)
    PROVE  Drawable(s)
  <1> DEFINE motion == s["motion"]
             light == s["light"]
             caps == s["capabilities"]
             names == {x.str : x \in ToSet(caps.obj["motion"].obj["joints"].arr)}
             joints == motion.obj["joints"]
             presets == caps.obj["motion"].obj["presets"]
             pixels == light.obj["pixels"]
             brightness == light.obj["brightness"]
  <1>1. /\ StateFields \subseteq DOMAIN s /\ PyMatch(s["device_id"], DeviceId)
        /\ PyCapabilities(caps) /\ PyMotionState(motion, names)
        /\ PyLightState(light, caps.obj["lights"].arr)
    BY ObjIs DEF PyState, PyKeys
  <1>2. IsJson(s["device_id"]) /\ IsJson(motion) /\ IsJson(light) /\ IsJson(caps)
    BY <1>1 DEF StateFields, JsonFields
  <1>3. Matches(s["device_id"], DEVICE_ID)
    BY <1>1, FormatsAgree DEF PyMatch, Matches
  <1>4. ASSUME NEW name \in DOMAIN joints.obj
        PROVE  /\ name \in ActionId
               /\ \A f \in {"pos", "min", "max"} : joints.obj[name].obj[f].num \in Int
    <2>1. /\ Exactly(motion, {"state", "action", "joints"}) /\ IsObj(joints)
          /\ DOMAIN joints.obj = names /\ PyJoint(joints.obj[name])
      BY <1>1, <1>4, FieldsAgree DEF PyMotionState
    <2>2. IsJson(joints)
      BY <1>2, <2>1, PartsAreJson
    <2>6. IsJson(joints.obj[name])
      <3>1. JsonFields(joints.obj)
        BY <2>1, <2>2, KindsAre, Zenon
      <3> QED BY <1>4, <3>1 DEF JsonFields
    <2>3. name \in ActionId
      <3>1. PyUniqueTexts(caps.obj["motion"].obj["joints"], ActionId)
        BY <1>1, <1>2, CapabilitiesAgree, Zenon
      <3> QED BY <2>1, <3>1, Zenon DEF PyUniqueTexts, PyMatch, ToSet
    <2>4. /\ Exactly(joints.obj[name], {"pos", "min", "max"})
          /\ \A f \in {"pos", "min", "max"} : IsNum(joints.obj[name].obj[f])
      BY <2>1, JointsAgree, Zenon
    <2>5. \A f \in {"pos", "min", "max"} : IsJson(joints.obj[name].obj[f])
      BY <2>4, <2>6, PartsAreJson, Zenon
    <2> QED BY <2>3, <2>4, <2>5, KindsAre, Zenon
  <1>5. IsJson(pixels.arr[1]) /\ PyMatch(pixels.arr[1], Color)
    <2>1. Exactly(light, {"brightness", "matrix", "pixels"}) /\ PyColors(pixels)
      BY <1>1, FieldsAgree, Zenon DEF PyLightState
    <2>4. IsJson(pixels)
      BY <1>2, <2>1, PartsAreJson
    <2>2. IsJson(pixels) /\ IsArr(pixels) /\ pixels.arr # <<>>
      BY <2>1, <2>4 DEF PyColors
    <2>3. 1 \in DOMAIN pixels.arr
      <3>1. PICK V : Kinds(pixels, V)
        BY <2>2, Zenon DEF IsJson, SelfContained
      <3>2. "arr" \in DOMAIN pixels
        BY <2>2, Zenon DEF IsArr
      <3>3. pixels.arr \in Seq(V)
        <4>1. pixels # Null
          BY <3>2 DEF Null
        <4>2. pixels # Str(pixels.str) /\ pixels # Obj(pixels.obj)
          BY <3>2 DEF Str, Obj
        <4>3. pixels # [num |-> pixels.num, dot |-> pixels.dot]
          BY <3>2
        <4>4. pixels # Bool(pixels.bool)
          BY <3>2 DEF Bool
        <4> QED BY <3>1, <4>1, <4>2, <4>3, <4>4, Zenon DEF Kinds
      <3> QED BY <2>2, <3>3
    <2> QED BY <2>1, <2>2, <2>3, PartsAreJson, Zenon DEF PyColors
  <1>6. brightness.num \in 0 .. 2
    <2>1. /\ Exactly(light, {"brightness", "matrix", "pixels"})
          /\ PyNumberRange(brightness, 0, 1)
      BY <1>1, FieldsAgree, Zenon DEF PyLightState
    <2>2. IsJson(brightness)
      BY <1>2, <2>1, PartsAreJson
    <2>3. brightness.num \in Int
      BY <2>1, <2>2, KindsAre DEF PyNumberRange
    <2> QED BY <2>1, <2>3 DEF PyNumberRange
  <1>7. ASSUME NEW p \in ToSet(presets.arr)
        PROVE  IsJson(p.obj["name"]) /\ PyMatch(p.obj["name"], ActionId)
    <2>1. PICK i \in DOMAIN presets.arr : p = presets.arr[i]
      BY Zenon DEF ToSet
    <2>2. /\ Exactly(caps, {"commands", "events", "motion", "lights"})
          /\ PyMotionCapability(caps.obj["motion"])
      BY <1>1, FieldsAgree, Zenon DEF PyCapabilities
    <2>3. /\ Exactly(caps.obj["motion"], {"joints", "presets"}) /\ IsArr(presets)
          /\ PyPreset(p)
      BY <2>1, <2>2, FieldsAgree, Zenon DEF PyMotionCapability
    <2>6. IsJson(caps.obj["motion"])
      BY <1>2, <2>2, PartsAreJson
    <2>7. IsJson(presets)
      BY <2>3, <2>6, PartsAreJson, Zenon
    <2>4. IsJson(p)
      BY <2>1, <2>3, <2>7, PartsAreJson, Zenon
    <2>5. Exactly(p, {"name", "label"}) /\ PyMatch(p.obj["name"], ActionId)
      BY <2>3, FieldsAgree DEF PyPreset
    <2> QED BY <2>4, <2>5, PartsAreJson
  <1> QED BY <1>2, <1>3, <1>4, <1>5, <1>6, <1>7, Zenon DEF Drawable

LEMMA MovesAreGood ==
    ASSUME NEW joints, DOMAIN joints # {}, DOMAIN joints \subseteq ActionId,
           \A name \in DOMAIN joints : joints[name] \in Int, NEW ms \in {100, 300}
    PROVE  GoodPayload("motion.absolute_move", MovePayload(joints, ms))
  <1> DEFINE type == "motion.absolute_move"
             numbers == [name \in DOMAIN joints |-> Number(joints[name])]
             p == MovePayload(joints, ms)
  <1>1. DOMAIN p = {"joints", "duration_ms"} /\ p["joints"] = Obj(numbers)
        /\ p["duration_ms"] = Whole(ms)
    BY DEF MovePayload
  <1>2. type \in CommandTypes /\ DOMAIN p = CommandFields(type)
    BY <1>1 DEF CommandTypes, CommandFields
  <1>3. /\ DOMAIN numbers = DOMAIN joints
        /\ \A name \in DOMAIN joints : IsJson(numbers[name]) /\ IsNum(numbers[name])
    BY LeavesAreJson DEF Number, IsNum
  <1> HIDE DEF numbers, p
  <1>4. IsJson(p["joints"]) /\ IsJson(p["duration_ms"])
    <2>1. IsJson(Obj(numbers))
      BY <1>3, ObjectsAreJson DEF JsonFields
    <2>2. IsJson(Whole(ms))
      BY LeavesAreJson
    <2> QED BY <1>1, <2>1, <2>2
  <1>5. PyJointNumbers(p["joints"]) /\ DOMAIN p["joints"].obj # {}
    BY <1>1, <1>3, ObjIs DEF PyJointNumbers
  <1>6. PyIntegerRange(p["duration_ms"], 1, 60000)
    BY <1>1 DEF PyIntegerRange, PyInteger, IsNum, Whole
  <1>7. JsonFields(p)
    BY <1>1, <1>4 DEF JsonFields
  <1>8. /\ "name" \notin DOMAIN p /\ "target" \notin DOMAIN p
        /\ "color" \notin DOMAIN p /\ "brightness" \notin DOMAIN p
    BY <1>1
  <1> QED BY <1>2, <1>5, <1>6, <1>7, <1>8 DEF GoodPayload, p, type

LEMMA NamesAreGood ==
    ASSUME NEW name, IsJson(name), PyMatch(name, ActionId)
    PROVE  GoodPayload("motion.play", [name |-> name])
  BY DEF GoodPayload, CommandTypes, CommandFields, JsonFields

LEMMA RestIsGood == GoodPayload("device.rest", <<>>)
  BY DEF GoodPayload, CommandTypes, CommandFields, JsonFields

LEMMA ColorsAreGood ==
    ASSUME NEW color, IsJson(color), PyMatch(color, Color)
    PROVE  GoodPayload("light.solid", [target |-> HeadMatrixName, color |-> color])
  <1> DEFINE p == [target |-> HeadMatrixName, color |-> color]
  <1>1. /\ DOMAIN p = {"target", "color"} /\ p["target"] = Str("head_matrix")
        /\ p["color"] = color
    BY DEF HeadMatrixName
  <1>2. JsonFields(p)
    BY <1>1, LeavesAreJson DEF JsonFields
  <1> HIDE DEF p
  <1>3. GoodPayload("light.solid", p)
    BY <1>1, <1>2 DEF GoodPayload, CommandTypes, CommandFields
  <1> QED BY <1>3 DEF p

LEMMA BrightnessesAreGood ==
    ASSUME NEW h \in 0 .. 2
    PROVE  GoodPayload("light.brightness",
                       [target |-> HeadMatrixName, brightness |-> Number(h)])
  <1> DEFINE p == [target |-> HeadMatrixName, brightness |-> Number(h)]
  <1>1. /\ DOMAIN p = {"target", "brightness"} /\ p["target"] = Str("head_matrix")
        /\ p["brightness"] = Number(h)
    BY DEF HeadMatrixName
  <1>2. IsJson(Str("head_matrix")) /\ IsJson(Number(h))
    BY LeavesAreJson
  <1>3. PyNumberRange(Number(h), 0, 1)
    BY DEF PyNumberRange, Number, IsNum
  <1> HIDE DEF p
  <1>4. JsonFields(p)
    BY <1>1, <1>2 DEF JsonFields
  <1>5. GoodPayload("light.brightness", p)
    <2>1. "light.brightness" \in CommandTypes
      BY DEF CommandTypes
    <2>2. CommandFields("light.brightness") = {"target", "brightness"}
      BY DEF CommandFields
    <2> QED BY <1>1, <1>3, <1>4, <2>1, <2>2 DEF GoodPayload
  <1> QED BY <1>5 DEF p

(* Every command of a set is accepted on both sides.                       *)
AllAccepted(S) == \A c \in S : PyCommand(c) /\ ParseDeviceCommand(c)

LEMMA MovesAreAccepted ==
    ASSUME NEW s, Drawable(s), NEW joints, NEW ms \in {100, 300},
           DOMAIN joints # {}, DOMAIN joints \subseteq ActionId,
           \A name \in DOMAIN joints : joints[name] \in Int
    PROVE  AllAccepted(SendCommand(s, "motion.absolute_move",
                                   MovePayload(joints, ms), TRUE))
  <1>1. GoodPayload("motion.absolute_move", MovePayload(joints, ms))
    BY MovesAreGood
  <1>2. "motion.absolute_move" \in Commands
    BY DEF Commands
  <1> QED BY <1>1, <1>2, SentIsAccepted, Zenon DEF Drawable, AllAccepted

LEMMA RequestsAreAccepted ==
    ASSUME NEW s, Drawable(s), NEW joints,
           \A name \in DOMAIN joints : joints[name] \in Int
    PROVE  AllAccepted(RequestAbsoluteMove(s, joints))
  <1>1. CASE InRange(s, joints)
    <2>1. DOMAIN joints # {} /\ DOMAIN joints \subseteq ActionId
      BY <1>1, Zenon DEF InRange, Drawable
    <2>2. AllAccepted(SendCommand(s, "motion.absolute_move",
                                  MovePayload(joints, 300), TRUE))
      <3>1. GoodPayload("motion.absolute_move", MovePayload(joints, 300))
        BY <2>1, MovesAreGood
      <3>2. "motion.absolute_move" \in Commands
        BY DEF Commands
      <3> QED BY <3>1, <3>2, SentIsAccepted, Zenon DEF Drawable, AllAccepted
    <2> QED BY <1>1, <2>2, Zenon DEF RequestAbsoluteMove
  <1>2. CASE ~InRange(s, joints)
    BY <1>2 DEF RequestAbsoluteMove, AllAccepted
  <1> QED BY <1>1, <1>2

LEMMA BrightnessesAreAccepted ==
    ASSUME NEW s, Drawable(s), NEW h \in 0 .. 2
    PROVE  AllAccepted(Brightness(s, h))
  BY SentIsAccepted, BrightnessesAreGood, Zenon
  DEF Drawable, Commands, Brightness, AllAccepted

LEMMA ColorsAreAccepted ==
    ASSUME NEW s, Drawable(s), NEW c, IsJson(c), PyMatch(c, Color)
    PROVE  AllAccepted(Solid(s, c))
  <1>1. GoodPayload("light.solid", [target |-> HeadMatrixName, color |-> c])
    BY ColorsAreGood
  <1> QED BY <1>1, SentIsAccepted, Zenon DEF Drawable, Commands, Solid, AllAccepted

LEMMA SlidersAreGood ==
    ASSUME NEW s, Drawable(s), Telemetry(s), NEW draft \in SliderDrafts(s)
    PROVE  /\ DOMAIN draft # {} /\ DOMAIN draft \subseteq ActionId
           /\ \A name \in DOMAIN draft : draft[name] \in Int
  <1>1. PICK name \in LEFLY_JOINT_NAMES :
          draft \in {[x \in {name} |-> v] : v \in SliderValues(s, name)}
    BY Zenon DEF SliderDrafts
  <1>2. PICK v \in SliderValues(s, name) : draft = [x \in {name} |-> v]
    BY <1>1
  <1>3. v \in Int
    BY <1>2, Zenon DEF Telemetry, SliderValues, Drawable
  <1>4. name \in ActionId
    BY DEF LEFLY_JOINT_NAMES, ActionId
  <1> QED BY <1>2, <1>3, <1>4

(* The page only sends what every side accepts: whatever valid state it    *)
(* shows, each command of App, Overview, MotionPanel and LightingPanel is  *)
(* one that DeviceCommand.from_dict and parseDeviceCommand both take.      *)
THEOREM PageAgrees ==
    ASSUME NEW s, JsonFields(s), NEW device, PyState(Obj(s), device),
           NEW c \in FromControls(s)
    PROVE  PyCommand(c) /\ ParseDeviceCommand(c)
  <1> DEFINE known == s["motion"].obj["joints"].obj
  <1>1. Drawable(s)
    BY StatesAreDrawable, Zenon
  <1>2. Telemetry(s) =>
          /\ \A name \in LEFLY_JOINT_NAMES : SliderValues(s, name) \subseteq Int
          /\ Positions(s) \in [LEFLY_JOINT_NAMES -> Int]
    BY <1>1, Zenon DEF Telemetry, SliderValues, Positions, Drawable
  <1>3. LEFLY_JOINT_NAMES \subseteq ActionId
    BY DEF LEFLY_JOINT_NAMES, ActionId
  <1>5. AllAccepted(SendSimulatorJoint(s))
    <2>1. ASSUME Telemetry(s), NEW draft \in SliderDrafts(s)
          PROVE  AllAccepted(SendCommand(s, "motion.absolute_move",
                                         MovePayload(draft, 100), TRUE))
      <3>1. /\ DOMAIN draft # {} /\ DOMAIN draft \subseteq ActionId
            /\ \A name \in DOMAIN draft : draft[name] \in Int
        BY <1>1, <2>1, SlidersAreGood
      <3> QED BY <1>1, <3>1, MovesAreAccepted, Zenon
    <2> QED BY <2>1 DEF SendSimulatorJoint, AllAccepted
  <1>6. AllAccepted(ApplyRemoteJointDraft(s))
    <2>1. ASSUME Telemetry(s), NEW draft \in SliderDrafts(s)
          PROVE  AllAccepted(RequestAbsoluteMove(s, draft))
      <3>1. \A name \in DOMAIN draft : draft[name] \in Int
        BY <1>1, <2>1, SlidersAreGood
      <3> QED BY <1>1, <3>1, RequestsAreAccepted
    <2> QED BY <2>1 DEF ApplyRemoteJointDraft, AllAccepted
  <1>7. AllAccepted(PlayPresets(s))
    <2>1. ASSUME NEW p \in ToSet(s["capabilities"].obj["motion"].obj["presets"].arr)
          PROVE  AllAccepted(SendCommand(s, "motion.play", [name |-> p.obj["name"]], TRUE))
      BY <1>1, NamesAreGood, SentIsAccepted, Zenon DEF Drawable, Commands, AllAccepted
    <2> QED BY <2>1, Zenon DEF PlayPresets, AllAccepted
  <1>8. AllAccepted(EnterStandby(s))
    BY <1>1, RestIsGood, SentIsAccepted, Zenon DEF Drawable, Commands, AllAccepted, EnterStandby
  <1>9. AllAccepted(QuickBrightness(s)) /\ AllAccepted(LightOff(s))
    <2>1. \A h \in 0 .. 2 : AllAccepted(Brightness(s, h))
      BY <1>1, BrightnessesAreAccepted
    <2> QED BY <2>1 DEF QuickBrightness, LightOff, AllAccepted
  <1>10. ASSUME NEW x \in Color
         PROVE  AllAccepted(Solid(s, Str(x)))
    BY <1>1, ColorsAreAccepted, LeavesAreJson, StrIs DEF PyMatch
  <1>11. AllAccepted(QuickColors(s))
    <2>1. QUICK_COLORS \subseteq Color
      BY DEF QUICK_COLORS, Color
    <2> QED BY <1>10, <2>1 DEF QuickColors, AllAccepted
  <1>12. AllAccepted(LightPresets(s))
    <2>1. ASSUME NEW p \in HEAD_LIGHT_PRESETS
          PROVE  /\ p.brightness \in 0 .. 2
                 /\ p.color = Null \/ \E x \in Color : p.color = Str(x)
      BY DEF HEAD_LIGHT_PRESETS, Color
    <2>2. ASSUME NEW p \in HEAD_LIGHT_PRESETS
          PROVE  AllAccepted(ApplyHeadLightPreset(s, p))
      <3>1. AllAccepted(Brightness(s, p.brightness))
        BY <1>1, <2>1, <2>2, BrightnessesAreAccepted
      <3>2. p.color # Null => AllAccepted(Solid(s, p.color))
        BY <1>10, <2>1, <2>2
      <3> QED BY <3>1, <3>2 DEF ApplyHeadLightPreset, AllAccepted
    <2> QED BY <2>2 DEF LightPresets, AllAccepted
  <1>13. AllAccepted(Shortcuts(s))
    <2>1. \A v \in {120, 0, -120} : AllAccepted(RequestAbsoluteMove(s, [base_yaw |-> v]))
      <3> SUFFICES ASSUME NEW v \in {120, 0, -120}
                   PROVE  AllAccepted(RequestAbsoluteMove(s, [base_yaw |-> v]))
        OBVIOUS
      <3>1. \A name \in DOMAIN [base_yaw |-> v] : [base_yaw |-> v][name] \in Int
        OBVIOUS
      <3> QED BY <1>1, <3>1, RequestsAreAccepted
    <2> QED BY <2>1 DEF Shortcuts, AllAccepted
  <1>14. AllAccepted(ApplyMotionDraft(s))
    <2>1. CASE Telemetry(s)
      <3>1. AllAccepted(RequestAbsoluteMove(s, Positions(s)))
        BY <1>1, <1>2, <2>1, RequestsAreAccepted
      <3>2. ASSUME NEW v \in SliderValues(s, "base_yaw")
            PROVE  AllAccepted(RequestAbsoluteMove(s, [Positions(s) EXCEPT !["base_yaw"] = v]))
        <4>1. v \in Int
          BY <1>2, <2>1 DEF LEFLY_JOINT_NAMES
        <4>2. [Positions(s) EXCEPT !["base_yaw"] = v] \in [LEFLY_JOINT_NAMES -> Int]
          BY <1>2, <2>1, <4>1
        <4> QED BY <1>1, <4>2, RequestsAreAccepted
      <3> QED BY <2>1, <3>1, <3>2 DEF ApplyMotionDraft, AllAccepted
    <2>2. CASE ~Telemetry(s)
      BY <2>2 DEF ApplyMotionDraft, AllAccepted
    <2> QED BY <2>1, <2>2
  <1>15. AllAccepted(ApplyLightDrafts(s))
    <2> DEFINE pixel == s["light"].obj["pixels"].arr[1]
               level == s["light"].obj["brightness"].num
    <2>1. AllAccepted(Solid(s, pixel))
      BY <1>1, ColorsAreAccepted, Zenon DEF Drawable
    <2>2. \A x \in COLORS : AllAccepted(Solid(s, Str(x)))
      BY <1>10, Zenon DEF COLORS, Color
    <2>3. \A h \in 0 .. 2 \union {level} : AllAccepted(Brightness(s, h))
      BY <1>1, BrightnessesAreAccepted, Zenon DEF Drawable
    <2> SUFFICES ASSUME NEW d \in ApplyLightDrafts(s)
                 PROVE  PyCommand(d) /\ ParseDeviceCommand(d)
      BY DEF AllAccepted
    <2>4. \/ \E x \in {Str(y) : y \in COLORS} \union {pixel} : d \in Solid(s, x)
          \/ \E h \in 0 .. 2 \union {level} : d \in Brightness(s, h)
      <3> DEFINE colors == UNION {Solid(s, x) : x \in {Str(y) : y \in COLORS} \union {pixel}}
                 levels == UNION {Brightness(s, h) : h \in 0 .. 2 \union {level}}
      <3>1. d \in colors \union levels
        BY DEF ApplyLightDrafts
      <3>2. d \in colors => \E x \in {Str(y) : y \in COLORS} \union {pixel} : d \in Solid(s, x)
        OBVIOUS
      <3>3. d \in levels => \E h \in 0 .. 2 \union {level} : d \in Brightness(s, h)
        OBVIOUS
      <3> HIDE DEF colors, levels
      <3> QED BY <3>1, <3>2, <3>3
    <2> HIDE DEF pixel, level
    <2>5. CASE \E x \in {Str(y) : y \in COLORS} \union {pixel} : d \in Solid(s, x)
      BY <2>1, <2>2, <2>5 DEF AllAccepted
    <2>6. CASE \E h \in 0 .. 2 \union {level} : d \in Brightness(s, h)
      BY <2>3, <2>6 DEF AllAccepted
    <2> QED BY <2>4, <2>5, <2>6
  <1> QED
    BY <1>5, <1>6, <1>7, <1>8, <1>9, <1>11, <1>12, <1>13, <1>14, <1>15
    DEF FromControls, AllAccepted

-----------------------------------------------------------------------------
(* The messages enumerated in WireMessages are JSON values.                *)
Bare(p) == JsonFields(p) /\ "extensions" \notin DOMAIN p

LEMMA WithIs ==
    ASSUME NEW p, NEW f, NEW v
    PROVE  /\ DOMAIN With(p, f, v) = DOMAIN p \union {f} /\ With(p, f, v)[f] = v
           /\ \A x \in DOMAIN p \ {f} : With(p, f, v)[x] = p[x]
  BY DEF With

LEMMA WithIsJson ==
    ASSUME NEW p, NEW f, NEW v, JsonFields(p), IsJson(v)
    PROVE  /\ JsonFields(With(p, f, v))
           /\ Bare(p) /\ f # "extensions" => Bare(With(p, f, v))
  <1> DEFINE q == With(p, f, v)
  <1>1. /\ DOMAIN q = DOMAIN p \union {f} /\ q[f] = v
        /\ \A x \in DOMAIN p \ {f} : q[x] = p[x]
    BY DEF With
  <1> HIDE DEF q
  <1>2. JsonFields(q)
    BY <1>1 DEF JsonFields
  <1>3. Bare(p) /\ f # "extensions" => Bare(q)
    BY <1>1, <1>2 DEF Bare
  <1> QED BY <1>2, <1>3 DEF q

LEMMA OdditiesAreJson == \A v \in Oddities : IsJson(v)
  <1> DEFINE others == {Null, Str(""), Str("?"), Str("nod"), Bool(TRUE), Obj(<<>>), Arr(<<>>)}
             wholes == {Whole(n) : n \in {-1, 0, 1, 60000, 60001}}
             halves == {Halves(h) : h \in {1, 2}}
  <1>1. Oddities = others \union wholes \union halves
    BY DEF Oddities
  <1>2. \A v \in others : IsJson(v)
    <2>1. IsJson(Obj(<<>>))
      BY ObjectsAreJson DEF JsonFields
    <2>2. IsJson(Arr(<<>>))
      <3>1. <<>> \in Seq({})
        OBVIOUS
      <3> QED BY <3>1, ArraysAreJson
    <2>3. IsJson(Bool(TRUE)) /\ IsJson(Null) /\ \A s : IsJson(Str(s))
      BY LeavesAreJson
    <2> QED BY <2>1, <2>2, <2>3, Zenon
  <1>3. \A v \in wholes : IsJson(v)
    BY LeavesAreJson
  <1>4. \A v \in halves : IsJson(v)
    BY LeavesAreJson
  <1> HIDE DEF others, wholes, halves
  <1> QED BY <1>1, <1>2, <1>3, <1>4

LEMMA AnnotationsAreJson == \A v \in Annotations : IsJson(v)
  <1>1. IsJson(Obj(<<>>)) /\ IsJson(Obj([notes |-> Null]))
    BY ObjectsAreJson, LeavesAreJson DEF JsonFields
  <1>2. IsJson(Obj([x \in Extension |-> Null]))
    BY ObjectsAreJson, LeavesAreJson DEF JsonFields
  <1>3. IsJson(Bool(TRUE)) /\ IsJson(Null)
    BY LeavesAreJson
  <1> QED BY <1>1, <1>2, <1>3 DEF Annotations

LEMMA VariantsAreJson ==
    ASSUME NEW p, JsonFields(p), NEW q \in Variants(p)
    PROVE  JsonFields(q)
  <1>1. CASE q = p
    BY <1>1
  <1>2. CASE q = With(p, "unknown", Null)
    BY <1>2, WithIsJson, LeavesAreJson
  <1>3. CASE \E f \in DOMAIN p : q = Without(p, f)
    BY <1>3 DEF Without, JsonFields
  <1>4. CASE \E f \in DOMAIN p, v \in Oddities : q = With(p, f, v)
    BY <1>4, WithIsJson, OdditiesAreJson
  <1>5. CASE \E v \in Annotations : q = With(p, "extensions", v)
    BY <1>5, WithIsJson, AnnotationsAreJson
  <1> QED BY <1>1, <1>2, <1>3, <1>4, <1>5 DEF Variants

LEMMA NestedAreJson ==
    ASSUME NEW p, JsonFields(p), NEW f, JsonFields(p[f].obj), NEW q \in Nested(p, f)
    PROVE  JsonFields(q)
  <1>1. PICK r \in Variants(p[f].obj) : q = With(p, f, Obj(r))
    BY DEF Nested
  <1>2. IsJson(Obj(r))
    BY VariantsAreJson, ObjectsAreJson
  <1> QED BY <1>1, <1>2, WithIsJson

LEMMA ListsAreJson ==
    /\ IsJson(Arr(<<>>))
    /\ \A v : IsJson(v) => IsJson(Arr(<<v>>))
    /\ \A v, w : IsJson(v) /\ IsJson(w) => IsJson(Arr(<<v, w>>))
  <1>1. IsJson(Arr(<<>>))
    <2>1. <<>> \in Seq({})
      OBVIOUS
    <2> QED BY <2>1, ArraysAreJson
  <1>2. ASSUME NEW v, NEW w, IsJson(v), IsJson(w)
        PROVE  IsJson(Arr(<<v>>)) /\ IsJson(Arr(<<v, w>>))
    <2>1. <<v>> \in Seq({v, w}) /\ <<v, w>> \in Seq({v, w})
      OBVIOUS
    <2>2. \A x \in {v, w} : IsJson(x)
      BY <1>2
    <2> QED BY <2>1, <2>2, ArraysAreJson
  <1> QED BY <1>1, <1>2

LEMMA TextsAreBare == \A s : IsJson(Str(s))
  BY LeavesAreJson

LEMMA PosesAreBare ==
    /\ \A pos \in Int : Bare(Joint(pos).obj) /\ IsJson(Joint(pos))
    /\ \A yaw, others \in Int : Bare(Pose(yaw, others)) /\ IsJson(Obj(Pose(yaw, others)))
  <1>1. ASSUME NEW pos \in Int
        PROVE  Bare(Joint(pos).obj) /\ IsJson(Joint(pos))
    <2> DEFINE p == [pos |-> Halves(pos), min |-> Whole(-60), max |-> Whole(60)]
    <2>1. IsJson(Halves(pos)) /\ IsJson(Whole(-60)) /\ IsJson(Whole(60))
      BY LeavesAreJson
    <2>2. Bare(p)
      BY <2>1 DEF Bare, JsonFields
    <2>3. Joint(pos) = Obj(p)
      BY DEF Joint
    <2> HIDE DEF p
    <2> QED BY <2>2, <2>3, ObjectsAreJson, ObjIs DEF Bare
  <1>2. ASSUME NEW yaw \in Int, NEW others \in Int
        PROVE  Bare(Pose(yaw, others)) /\ IsJson(Obj(Pose(yaw, others)))
    <2>1. JsonFields(Pose(yaw, others))
      BY <1>1 DEF Pose, JsonFields
    <2>2. "extensions" \notin DOMAIN Pose(yaw, others)
      BY DEF Pose, LEFLY_JOINT_NAMES
    <2> QED BY <2>1, <2>2, ObjectsAreJson DEF Bare
  <1> QED BY <1>1, <1>2

LEMMA MotionsAreBare ==
    ASSUME NEW state, NEW action, IsJson(action), NEW joints, IsJson(Obj(joints))
    PROVE  Bare(Motion(state, action, joints)) /\ IsJson(Obj(Motion(state, action, joints)))
  <1>1. Bare(Motion(state, action, joints))
    BY TextsAreBare DEF Motion, Bare, JsonFields
  <1> QED BY <1>1, ObjectsAreJson DEF Bare

LEMMA LightsAreBare ==
    ASSUME NEW pixels, IsJson(Arr(pixels)), Len(pixels) \in Int, NEW level \in Int
    PROVE  /\ Bare(Light(pixels, level)) /\ IsJson(Obj(Light(pixels, level)))
           /\ Light(pixels, level)["matrix"] = Obj(Matrix(Len(pixels)))
           /\ Bare(Matrix(Len(pixels)))
  <1>1. Bare(Matrix(Len(pixels)))
    BY LeavesAreJson DEF Matrix, Bare, JsonFields
  <1>2. IsJson(Obj(Matrix(Len(pixels)))) /\ IsJson(Halves(level))
    BY <1>1, ObjectsAreJson, LeavesAreJson DEF Bare
  <1>3. Bare(Light(pixels, level))
    BY <1>2 DEF Light, Bare, JsonFields
  <1> QED BY <1>1, <1>3, ObjectsAreJson DEF Bare, Light

LEMMA HeadMatricesAreBare ==
    ASSUME NEW width \in Int
    PROVE  Bare(HeadMatrix(width)) /\ IsJson(Obj(HeadMatrix(width)))
  <1>1. Bare(Matrix(width))
    BY LeavesAreJson DEF Matrix, Bare, JsonFields
  <1>2. Bare(With(Matrix(width), "target", Str("head_matrix")))
    BY <1>1, WithIsJson, TextsAreBare DEF Bare
  <1>3. Bare(HeadMatrix(width))
    BY <1>2, WithIsJson, TextsAreBare DEF Bare, HeadMatrix
  <1> QED BY <1>3, ObjectsAreJson DEF Bare

LEMMA PresetIsBare == Bare(Preset) /\ IsJson(Obj(Preset))
  <1>1. Bare(Preset)
    BY LeavesAreJson DEF Preset, Bare, JsonFields
  <1> QED BY <1>1, ObjectsAreJson DEF Bare

LEMMA CapabilitiesAreBare ==
    ASSUME NEW joints, IsJson(Arr(joints)), NEW width \in Int
    PROVE  Bare(Capabilities(joints, width)) /\ IsJson(Obj(Capabilities(joints, width)))
  <1>1. IsJson(Obj([x \in CommandTypes |-> Obj([scope |-> Str("control")])]))
    <2>1. IsJson(Obj([scope |-> Str("control")]))
      BY TextsAreBare, ObjectsAreJson DEF JsonFields
    <2>2. JsonFields([x \in CommandTypes |-> Obj([scope |-> Str("control")])])
      BY <2>1 DEF JsonFields
    <2> QED BY <2>2, ObjectsAreJson
  <1>2. IsJson(Arr(<<Str("device.error")>>))
    BY ListsAreJson, TextsAreBare
  <1>3. IsJson(Obj([joints |-> Arr(joints), presets |-> Arr(<<Obj(Preset)>>)]))
    <2>1. IsJson(Arr(<<Obj(Preset)>>))
      BY ListsAreJson, PresetIsBare
    <2>2. JsonFields([joints |-> Arr(joints), presets |-> Arr(<<Obj(Preset)>>)])
      BY <2>1 DEF JsonFields
    <2> QED BY <2>2, ObjectsAreJson
  <1>4. IsJson(Arr(<<Obj(HeadMatrix(width))>>))
    BY ListsAreJson, HeadMatricesAreBare
  <1>5. Bare(Capabilities(joints, width))
    BY <1>1, <1>2, <1>3, <1>4 DEF Capabilities, Bare, JsonFields
  <1> QED BY <1>5, ObjectsAreJson DEF Bare

LEMMA AllJointsAreJson == IsJson(Arr(AllJoints))
  <1> DEFINE S == {Str(name) : name \in LEFLY_JOINT_NAMES}
  <1>1. AllJoints \in Seq(S)
    BY DEF AllJoints, LEFLY_JOINT_NAMES
  <1>2. \A x \in S : IsJson(x)
    BY TextsAreBare
  <1> QED BY <1>1, <1>2, ArraysAreJson

LEMMA StateIsBare ==
    /\ Bare(State)
    /\ \A f \in {"capabilities", "motion", "light", "status", "status_strip",
                 "command_queue"} : Bare(State[f].obj)
  <1> DEFINE strip == [color |-> Black, effect |-> Str("solid")]
             queue == [size |-> Whole(0), capacity |-> Whole(2)]
             status == [mode |-> Str("active")]
             caps == Capabilities(AllJoints, 1)
             motion == Motion("idle", Null, Pose(0, 0))
             light == Light(<<Black>>, 0)
  <1>1. /\ State["capabilities"] = Obj(caps) /\ State["motion"] = Obj(motion)
        /\ State["light"] = Obj(light) /\ State["status"] = Obj(status)
        /\ State["status_strip"] = Obj(strip) /\ State["command_queue"] = Obj(queue)
    BY DEF State
  <1>2. Bare(strip) /\ Bare(status)
    BY TextsAreBare DEF Bare, JsonFields, Black
  <1>3. Bare(queue)
    BY LeavesAreJson DEF Bare, JsonFields
  <1>4. Bare(caps)
    BY AllJointsAreJson, CapabilitiesAreBare
  <1>5. Bare(motion)
    BY PosesAreBare, MotionsAreBare, LeavesAreJson
  <1>6. Bare(light)
    BY ListsAreJson, TextsAreBare, LightsAreBare DEF Black
  <1> HIDE DEF strip, queue, status, caps, motion, light
  <1>7. /\ IsJson(Obj(caps)) /\ IsJson(Obj(motion)) /\ IsJson(Obj(light))
        /\ IsJson(Obj(status)) /\ IsJson(Obj(strip)) /\ IsJson(Obj(queue))
    BY <1>2, <1>3, <1>4, <1>5, <1>6, ObjectsAreJson DEF Bare
  <1>8. /\ DOMAIN State = StateFields /\ State["device_id"] = Str("lefly")
        /\ State["revision"] = Whole(0) /\ State["connection"] = Str("ready")
    BY DEF State, StateFields
  <1>9. IsJson(Str("lefly")) /\ IsJson(Whole(0)) /\ IsJson(Str("ready"))
    BY LeavesAreJson
  <1>10. Bare(State)
    <2>1. \A f \in StateFields : IsJson(State[f])
      BY <1>1, <1>7, <1>8, <1>9 DEF StateFields
    <2> QED BY <1>8, <2>1 DEF Bare, JsonFields, StateFields
  <1> QED BY <1>1, <1>2, <1>3, <1>4, <1>5, <1>6, <1>10, ObjIs

LEMMA ChangedIsBare ==
    ASSUME NEW f, f # "extensions", NEW v, IsJson(v)
    PROVE  Bare(With(State, f, v))
  BY StateIsBare, WithIsJson DEF Bare

LEMMA ChangedTwiceIsBare ==
    ASSUME NEW f, f # "extensions", NEW v, IsJson(v),
           NEW g, g # "extensions", NEW w, IsJson(w)
    PROVE  Bare(With(With(State, f, v), g, w))
  BY ChangedIsBare, WithIsJson DEF Bare

LEMMA OthersAreBare ==
    /\ \A s \in DrawnStates : Bare(s)
    /\ \A s \in OtherJoints : Bare(s)
    /\ \A s \in OtherMatrix : Bare(s)
    /\ \A s \in OtherTexts : Bare(s)
  <1>1. IsJson(Arr(<<Str("base_yaw")>>)) /\ IsJson(Arr(<<Str("base_yaw"), Str("base_yaw")>>))
    BY ListsAreJson, TextsAreBare
  <1>2. \A named \in {AllJoints, <<Str("base_yaw")>>,
                      <<Str("base_yaw"), Str("base_yaw")>>, <<>>} : IsJson(Arr(named))
    BY <1>1, AllJointsAreJson, ListsAreJson
  <1>3. \A joints \in {Pose(0, 2), [base_yaw |-> Joint(0)], [base_yaw |-> Null], <<>>} :
          IsJson(Obj(joints))
    <2>1. IsJson(Obj(Pose(0, 2)))
      BY PosesAreBare
    <2>2. /\ IsJson(Obj([base_yaw |-> Joint(0)])) /\ IsJson(Obj([base_yaw |-> Null]))
          /\ IsJson(Obj(<<>>))
      BY PosesAreBare, LeavesAreJson, ObjectsAreJson DEF JsonFields
    <2> QED BY <2>1, <2>2
  <1>4. IsJson(Null) /\ IsJson(Str("nod"))
    BY LeavesAreJson
  <1>5. IsJson(Arr(<<>>)) /\ IsJson(Arr(<<Black>>)) /\ IsJson(Arr(<<Amber, Black>>))
        /\ IsJson(Arr(<<Amber>>))
    BY ListsAreJson, TextsAreBare DEF Black, Amber
  <1>6. ASSUME NEW s \in OtherJoints PROVE Bare(s)
    <2>1. PICK named \in {AllJoints, <<Str("base_yaw")>>,
                          <<Str("base_yaw"), Str("base_yaw")>>, <<>>},
               joints \in {Pose(0, 2), [base_yaw |-> Joint(0)], [base_yaw |-> Null], <<>>} :
            s = With(With(State, "capabilities", Obj(Capabilities(named, 1))),
                     "motion", Obj(Motion("idle", Null, joints)))
      BY DEF OtherJoints
    <2>2. IsJson(Obj(Capabilities(named, 1)))
      BY <1>2, CapabilitiesAreBare
    <2>3. IsJson(Obj(Motion("idle", Null, joints)))
      BY <1>3, <1>4, MotionsAreBare
    <2> QED BY <2>1, <2>2, <2>3, ChangedTwiceIsBare
  <1>7. ASSUME NEW s \in OtherMatrix PROVE Bare(s)
    <2>1. PICK width \in 0 .. 2, pixels \in {<<>>, <<Black>>, <<Amber, Black>>} :
            s = With(With(State, "capabilities", Obj(Capabilities(AllJoints, width))),
                     "light", Obj(Light(pixels, 1)))
      BY DEF OtherMatrix
    <2>2. IsJson(Obj(Capabilities(AllJoints, width)))
      BY AllJointsAreJson, CapabilitiesAreBare
    <2>3. Len(pixels) \in Int /\ IsJson(Arr(pixels))
      BY <1>5
    <2>4. IsJson(Obj(Light(pixels, 1)))
      BY <2>3, LightsAreBare
    <2> QED BY <2>1, <2>2, <2>4, ChangedTwiceIsBare
  <1>8. ASSUME NEW s \in OtherTexts PROVE Bare(s)
    <2>1. CASE \E c \in {"connecting", "degraded", "offline", "lost"} :
                 s = With(State, "connection", Str(c))
      BY <2>1, ChangedIsBare, TextsAreBare
    <2>2. CASE \E x \in StatusModes : s = With(State, "status", Obj([mode |-> Str(x)]))
      <3>1. \A x : IsJson(Obj([mode |-> Str(x)]))
        BY TextsAreBare, ObjectsAreJson DEF JsonFields
      <3> QED BY <2>2, <3>1, ChangedIsBare
    <2>3. CASE \E x \in StatusEffects :
                 s = With(State, "status_strip", Obj([color |-> Amber, effect |-> Str(x)]))
      <3>1. \A x : IsJson(Obj([color |-> Amber, effect |-> Str(x)]))
        BY TextsAreBare, ObjectsAreJson DEF JsonFields, Amber
      <3> QED BY <2>3, <3>1, ChangedIsBare
    <2>4. CASE \E state \in {"idle", "moving", "error"}, action \in {Null, Str("nod")},
                  p \in {-121, -120, 1, 120, 121} :
                 s = With(State, "motion", Obj(Motion(state, action, Pose(p, 0))))
      <3>1. PICK state \in {"idle", "moving", "error"}, action \in {Null, Str("nod")},
                 p \in {-121, -120, 1, 120, 121} :
              s = With(State, "motion", Obj(Motion(state, action, Pose(p, 0))))
        BY <2>4
      <3>2. p \in Int /\ IsJson(action)
        BY <1>4
      <3>3. IsJson(Obj(Motion(state, action, Pose(p, 0))))
        BY <3>2, PosesAreBare, MotionsAreBare
      <3> QED BY <3>1, <3>3, ChangedIsBare
    <2> QED BY <2>1, <2>2, <2>3, <2>4 DEF OtherTexts
  <1>9. Bare(Blind)
    <2>1. IsJson(Obj(Capabilities(<<Str("base_yaw")>>, 1)))
      BY <1>1, CapabilitiesAreBare
    <2>2. IsJson(Obj(Motion("idle", Null, [base_yaw |-> Joint(0)])))
      BY <1>3, <1>4, MotionsAreBare
    <2> QED BY <2>1, <2>2, ChangedTwiceIsBare DEF Blind
  <1>10. Bare(Bright)
    <2>1. IsJson(Obj(Motion("idle", Null, Pose(1, 120))))
      BY <1>4, PosesAreBare, MotionsAreBare
    <2>2. IsJson(Obj(Light(<<Amber>>, 2)))
      BY <1>5, LightsAreBare
    <2>3. IsJson(Obj([color |-> Amber, effect |-> Str("fade")]))
      BY TextsAreBare, ObjectsAreJson DEF JsonFields, Amber
    <2>4. Bare(With(With(State, "motion", Obj(Motion("idle", Null, Pose(1, 120)))),
                    "light", Obj(Light(<<Amber>>, 2))))
      BY <2>1, <2>2, ChangedTwiceIsBare
    <2> QED BY <2>3, <2>4, WithIsJson DEF Bare, Bright
  <1> QED BY <1>6, <1>7, <1>8, <1>9, <1>10, StateIsBare DEF DrawnStates

LEMMA StateVariantsAreJson == \A s \in StateVariants : JsonFields(s)
  <1> SUFFICES ASSUME NEW s \in StateVariants PROVE JsonFields(s)
    OBVIOUS
  <1>1. CASE s \in DrawnStates \union OtherJoints \union OtherMatrix \union OtherTexts
    BY <1>1, OthersAreBare DEF Bare
  <1>2. CASE s \in Variants(State)
    BY <1>2, StateIsBare, VariantsAreJson DEF Bare
  <1>3. CASE \E f \in {"capabilities", "motion", "light", "status", "status_strip",
                       "command_queue"} : s \in Nested(State, f)
    BY <1>3, StateIsBare, NestedAreJson DEF Bare
  <1>4. CASE \E q \in Nested(Light(<<Black>>, 2), "matrix") : s = With(State, "light", Obj(q))
    <2>1. PICK q \in Nested(Light(<<Black>>, 2), "matrix") : s = With(State, "light", Obj(q))
      BY <1>4
    <2>2. IsJson(Arr(<<Black>>)) /\ Len(<<Black>>) \in Int
      BY ListsAreJson, TextsAreBare DEF Black
    <2>3. Bare(Light(<<Black>>, 2)) /\ Bare(Light(<<Black>>, 2)["matrix"].obj)
      BY <2>2, LightsAreBare, ObjIs
    <2>4. IsJson(Obj(q))
      BY <2>3, NestedAreJson, ObjectsAreJson DEF Bare
    <2> QED BY <2>1, <2>4, ChangedIsBare DEF Bare
  <1>5. CASE \E q \in Nested(Pose(1, 1), "base_yaw") :
               s = With(State, "motion", Obj(Motion("idle", Null, q)))
    <2>1. PICK q \in Nested(Pose(1, 1), "base_yaw") :
            s = With(State, "motion", Obj(Motion("idle", Null, q)))
      BY <1>5
    <2>2. Bare(Pose(1, 1)) /\ Pose(1, 1)["base_yaw"] = Joint(1)
      BY PosesAreBare DEF Pose, LEFLY_JOINT_NAMES
    <2>3. IsJson(Obj(q))
      BY <2>2, PosesAreBare, NestedAreJson, ObjectsAreJson DEF Bare
    <2>4. IsJson(Obj(Motion("idle", Null, q)))
      BY <2>3, MotionsAreBare, LeavesAreJson
    <2> QED BY <2>1, <2>4, ChangedIsBare DEF Bare
  <1>6. ASSUME NEW f, f # "extensions", NEW v, IsJson(v)
        PROVE  Bare(WithCapability(f, v))
    <2>1. IsJson(Obj(With(State["capabilities"].obj, f, v)))
      BY <1>6, StateIsBare, WithIsJson, ObjectsAreJson DEF Bare
    <2> QED BY <2>1, ChangedIsBare DEF WithCapability
  <1>7. CASE \E x \in {<<Obj(q)>> : q \in Variants(HeadMatrix(1))}
                      \union {<<>>, <<Obj(HeadMatrix(1)), Obj(HeadMatrix(1))>>} :
               s = WithCapability("lights", Arr(x))
    <2>1. PICK x \in {<<Obj(q)>> : q \in Variants(HeadMatrix(1))}
                     \union {<<>>, <<Obj(HeadMatrix(1)), Obj(HeadMatrix(1))>>} :
            s = WithCapability("lights", Arr(x))
      BY <1>7
    <2>2. Bare(HeadMatrix(1)) /\ IsJson(Obj(HeadMatrix(1)))
      BY HeadMatricesAreBare
    <2>3. \A q \in Variants(HeadMatrix(1)) : IsJson(Obj(q))
      BY <2>2, VariantsAreJson, ObjectsAreJson DEF Bare
    <2>4. IsJson(Arr(x))
      BY <2>2, <2>3, ListsAreJson
    <2> QED BY <1>6, <2>1, <2>4 DEF Bare
  <1>8. CASE \E x \in {<<Obj(q)>> : q \in Variants(Preset)}
                      \union {<<>>, <<Obj(Preset), Obj(Preset)>>} :
               s = WithCapability("motion",
                     Obj([joints |-> Arr(AllJoints), presets |-> Arr(x)]))
    <2>1. PICK x \in {<<Obj(q)>> : q \in Variants(Preset)}
                     \union {<<>>, <<Obj(Preset), Obj(Preset)>>} :
            s = WithCapability("motion",
                  Obj([joints |-> Arr(AllJoints), presets |-> Arr(x)]))
      BY <1>8
    <2>2. \A q \in Variants(Preset) : IsJson(Obj(q))
      BY PresetIsBare, VariantsAreJson, ObjectsAreJson DEF Bare
    <2>3. IsJson(Arr(x))
      BY <2>2, PresetIsBare, ListsAreJson
    <2>4. IsJson(Obj([joints |-> Arr(AllJoints), presets |-> Arr(x)]))
      BY <2>3, AllJointsAreJson, ObjectsAreJson DEF JsonFields
    <2> QED BY <1>6, <2>1, <2>4 DEF Bare
  <1> QED BY <1>1, <1>2, <1>3, <1>4, <1>5, <1>7, <1>8 DEF StateVariants

LEMMA ListedStatesAreRead ==
    \A s \in States : JsonFields(s) /\ (NullExtensions(s) \/ IsDeviceState(Obj(s)))
  <1> SUFFICES ASSUME NEW s \in States
               PROVE  JsonFields(s) /\ (NullExtensions(s) \/ IsDeviceState(Obj(s)))
    OBVIOUS
  <1>1. JsonFields(s) /\ PyState(Obj(s), Str("lefly"))
    BY StateVariantsAreJson DEF States
  <1>2. IsJson(Obj(s)) /\ Obj(s).obj = s
    BY <1>1, ObjectsAreJson, ObjIs
  <1> QED BY <1>1, <1>2, StatesAgree

-----------------------------------------------------------------------------
LEMMA EnvelopesAreJson ==
    ASSUME NEW type, NEW p, JsonFields(p)
    PROVE  JsonFields(Envelope(type, p))
  <1> DEFINE e == Envelope(type, p)
  <1>1. /\ DOMAIN e = EnvelopeFields
        /\ e["version"] = Str("1") /\ e["id"] = Str("id1") /\ e["type"] = Str(type)
        /\ e["timestamp"] = Str("t1") /\ e["device_id"] = Str("lefly")
        /\ e["payload"] = Obj(p)
    BY EnvelopeIs
  <1> HIDE DEF e
  <1>2. IsJson(Obj(p)) /\ \A s : IsJson(Str(s))
    BY ObjectsAreJson, LeavesAreJson
  <1>3. \A f \in EnvelopeFields : IsJson(e[f])
    BY <1>1, <1>2 DEF EnvelopeFields
  <1>4. JsonFields(e)
    BY <1>1, <1>3 DEF JsonFields
  <1> QED BY <1>4 DEF e

LEMMA AnswersAreJson ==
    ASSUME NEW e, JsonFields(e)
    PROVE  /\ JsonFields(Answering(e))
           /\ JsonFields(With(e, "timestamp", Str("wide")))
  BY LeavesAreJson, WithIsJson DEF Answering

LEMMA ErrorIsBare == Bare(Error)
  <1>1. IsJson([bool |-> TRUE])
    BY LeavesAreJson DEF Bool
  <1>2. /\ DOMAIN Error = {"code", "message", "recoverable", "details"}
        /\ Error["code"] = Str("offline") /\ Error["message"] = Str("gone")
        /\ Error["details"] = Null
    BY DEF Error
  <1>3. Error["recoverable"] = [bool |-> TRUE]
    BY DEF Error, Bool
  <1>4. IsJson(Str("offline")) /\ IsJson(Str("gone")) /\ IsJson(Null)
    BY LeavesAreJson
  <1> QED BY <1>1, <1>2, <1>3, <1>4 DEF Bare, JsonFields

LEMMA StartedIsBare == Bare(Started)
  BY LeavesAreJson DEF Started, Bare, JsonFields

LEMMA FinishedIsBare == Bare(Finished)
  <1>1. IsJson(Obj(<<>>))
    BY ObjectsAreJson DEF JsonFields
  <1> QED BY <1>1, LeavesAreJson DEF Finished, Bare, JsonFields

LEMMA ProgressIsBare == Bare(Progress)
  <1>1. IsJson(Obj([base_yaw |-> Halves(1)]))
    BY LeavesAreJson, ObjectsAreJson DEF JsonFields
  <1> QED BY <1>1, LeavesAreJson DEF Progress, Bare, JsonFields

LEMMA PayloadsAreBare == \A type : Bare(Payload(type))
  <1>1. Bare([command_type |-> Str("motion.play"), disposition |-> Str("queued")])
    BY LeavesAreJson DEF Bare, JsonFields
  <1>2. Bare([position |-> Str("left"), pressed |-> Bool(TRUE)])
    <2>1. IsJson([bool |-> TRUE]) /\ IsJson(Str("left"))
      BY LeavesAreJson DEF Bool
    <2> DEFINE p == [position |-> Str("left"), pressed |-> Bool(TRUE)]
    <2>2. DOMAIN p = {"position", "pressed"} /\ p["position"] = Str("left")
      OBVIOUS
    <2>3. p["pressed"] = [bool |-> TRUE]
      BY DEF Bool
    <2> HIDE DEF p
    <2>4. Bare(p)
      BY <2>1, <2>2, <2>3 DEF Bare, JsonFields
    <2> QED BY <2>4 DEF p
  <1>3. Bare(Vision)
    BY LeavesAreJson DEF Vision, Bare, JsonFields
  <1> SUFFICES ASSUME NEW type PROVE Bare(Payload(type))
    OBVIOUS
  <1>4. \/ Payload(type) = [command_type |-> Str("motion.play"), disposition |-> Str("queued")]
        \/ Payload(type) = [position |-> Str("left"), pressed |-> Bool(TRUE)]
        \/ Payload(type) \in {Vision, Started, Progress, Finished, State, Error}
    BY DEF Payload
  <1> QED BY <1>1, <1>2, <1>3, <1>4, StateIsBare, StartedIsBare, ProgressIsBare,
             FinishedIsBare, ErrorIsBare

LEMMA OtherPayloadsAreJson == \A e \in OtherPayloads : JsonFields(e)
  <1> DEFINE begun(type, action) ==
               With(With(Started, "command_type", Str(type)), "action", Str(action))
             ended(status, reason, error) ==
               [Finished EXCEPT !["status"] = Str(status), !["reason"] = reason,
                                !["error"] = error]
             statuses == {"completed", "cancelled", "failed"}
             reasons == {Null, Str("preempted")}
             errors == {Null} \union {Obj(q) : q \in Variants(Error)}
  <1>1. OtherPayloads =
          {Envelope("motion.started", begun(type, action)) :
             type \in MotionTypes, action \in ActionId}
          \union {Envelope("motion.finished", ended(status, reason, error)) :
             status \in statuses, reason \in reasons, error \in errors}
    BY DEF OtherPayloads
  <1>2. ASSUME NEW type, NEW action
        PROVE  JsonFields(Envelope("motion.started", begun(type, action)))
    <2>1. IsJson(Str(type)) /\ IsJson(Str(action))
      BY LeavesAreJson
    <2>2. Bare(With(Started, "command_type", Str(type)))
      BY <2>1, StartedIsBare, WithIsJson DEF Bare
    <2>3. Bare(begun(type, action))
      BY <2>1, <2>2, WithIsJson DEF Bare
    <2> HIDE DEF begun
    <2> QED BY <2>3, EnvelopesAreJson DEF Bare
  <1>3. ASSUME NEW status, NEW reason \in reasons, NEW error \in errors
        PROVE  JsonFields(Envelope("motion.finished", ended(status, reason, error)))
    <2>1. IsJson(Str(status)) /\ IsJson(reason)
      BY LeavesAreJson
    <2>2. IsJson(error)
      <3>1. \A q \in Variants(Error) : IsJson(Obj(q))
        BY ErrorIsBare, VariantsAreJson, ObjectsAreJson DEF Bare
      <3> QED BY <3>1, LeavesAreJson
    <2> DEFINE p == ended(status, reason, error)
    <2>3. /\ DOMAIN p = DOMAIN Finished
          /\ \A f \in DOMAIN p : p[f] \in {Finished[f], Str(status), reason, error}
      OBVIOUS
    <2> HIDE DEF p
    <2>4. Bare(p)
      BY <2>1, <2>2, <2>3, FinishedIsBare DEF Bare, JsonFields
    <2>5. JsonFields(Envelope("motion.finished", p))
      BY <2>4, EnvelopesAreJson DEF Bare
    <2> QED BY <2>5 DEF p
  <1> HIDE DEF begun, ended, statuses, reasons, errors
  <1> QED BY <1>1, <1>2, <1>3

LEMMA EventVariantsAreJson == \A e \in EventVariants : JsonFields(e)
  <1> DEFINE plain == OtherPayloads
                      \union UNION {{Envelope(type, p) : p \in Variants(Payload(type))} :
                                      type \in EventTypes}
             odd == Variants(Envelope("device.error", Error))
             custom == Variants(Answering(Envelope("robot.custom", <<>>)))
  <1>1. \A e \in plain : JsonFields(e)
    BY OtherPayloadsAreJson, PayloadsAreBare, VariantsAreJson, EnvelopesAreJson DEF Bare
  <1>2. \A e \in plain : JsonFields(Answering(e)) /\ JsonFields(With(e, "timestamp", Str("wide")))
    BY <1>1, AnswersAreJson
  <1>3. \A e \in odd : JsonFields(e)
    BY ErrorIsBare, EnvelopesAreJson, VariantsAreJson DEF Bare
  <1>4. \A e \in custom : JsonFields(e)
    <2>1. JsonFields(<<>>)
      BY DEF JsonFields
    <2>2. JsonFields(Answering(Envelope("robot.custom", <<>>)))
      BY <2>1, EnvelopesAreJson, AnswersAreJson
    <2> QED BY <2>2, VariantsAreJson
  <1>5. EventVariants = plain \union {Answering(e) : e \in plain}
                        \union {With(e, "timestamp", Str("wide")) : e \in plain}
                        \union odd \union custom
    BY DEF EventVariants
  <1> HIDE DEF plain, odd, custom
  <1> QED BY <1>1, <1>2, <1>3, <1>4, <1>5

LEMMA ListedEventsAreRead ==
    \A e \in Events : \/ WideTime(e) \/ NullExtensions(e["payload"].obj)
                      \/ ParseDeviceEvent(e)
  <1> SUFFICES ASSUME NEW v \in EventVariants, PyEvent(v),
                      ~WideTime(Forwarded(v)), ~NullExtensions(Forwarded(v)["payload"].obj)
               PROVE  ParseDeviceEvent(Forwarded(v))
    BY DEF Events
  <1>1. "payload" \in DOMAIN v /\ "timestamp" \in DOMAIN v
    BY DEF PyEvent, PyEnvelope, PyKeys, EnvelopeFields
  <1>2. /\ Forwarded(v)["payload"] = v["payload"]
        /\ Forwarded(v)["timestamp"] = v["timestamp"]
    BY <1>1 DEF Forwarded
  <1>3. ~NullExtensions(v["payload"].obj) /\ v["timestamp"] # Str("wide")
    BY <1>2 DEF WideTime
  <1>4. JsonFields(v)
    BY EventVariantsAreJson
  <1> QED BY <1>3, <1>4, EventsAgree

-----------------------------------------------------------------------------
(* The state of WireMessages is a valid one.                               *)
LEMMA CapabilitiesAreValid == PyCapabilities(Obj(Capabilities(AllJoints, 1)))
  <1> DEFINE caps == Capabilities(AllJoints, 1)
             commands == [x \in CommandTypes |-> Obj([scope |-> Str("control")])]
             motion == [joints |-> Arr(AllJoints), presets |-> Arr(<<Obj(Preset)>>)]
             head == HeadMatrix(1)
  <1>1. /\ DOMAIN caps = {"commands", "events", "motion", "lights"}
        /\ caps["commands"] = Obj(commands)
        /\ caps["events"] = Arr(<<Str("device.error")>>)
        /\ caps["motion"] = Obj(motion)
        /\ caps["lights"] = Arr(<<Obj(head)>>)
    BY DEF Capabilities
  <1>2. \A name \in DOMAIN commands :
          /\ name \in MessageType /\ PyFields(commands[name], {"scope"})
          /\ PyEnum(commands[name].obj["scope"], {"control", "system"})
    <2>1. DOMAIN commands \subseteq MessageType
      BY DEF MessageType
    <2>2. \A name \in DOMAIN commands :
            commands[name] = Obj([scope |-> Str("control")])
      OBVIOUS
    <2>3. PyFields(Obj([scope |-> Str("control")]), {"scope"})
      BY ObjIs DEF PyFields, PyKeys
    <2>4. PyEnum(Obj([scope |-> Str("control")]).obj["scope"], {"control", "system"})
      BY ObjIs, StrIs DEF PyEnum
    <2> HIDE DEF commands
    <2> QED BY <2>1, <2>2, <2>3, <2>4
  <1>3. PyUniqueTexts(Arr(<<Str("device.error")>>), MessageType)
    BY DEF PyUniqueTexts, PyUnique, PyMatch, Arr, IsArr, Str, IsStr, MessageType, EventTypes
  <1>4. PyMotionCapability(Obj(motion))
    <2>1. /\ DOMAIN motion = {"joints", "presets"} /\ motion["joints"] = Arr(AllJoints)
          /\ motion["presets"] = Arr(<<Obj(Preset)>>)
      OBVIOUS
    <2>2. PyUniqueTexts(Arr(AllJoints), ActionId)
      <3>1. IsArr(Arr(AllJoints)) /\ Arr(AllJoints).arr = AllJoints
        BY DEF IsArr, Arr
      <3>2. /\ DOMAIN AllJoints = 1 .. 5
            /\ AllJoints[1] = Str("base_yaw") /\ AllJoints[2] = Str("base_pitch")
            /\ AllJoints[3] = Str("elbow_pitch") /\ AllJoints[4] = Str("wrist_roll")
            /\ AllJoints[5] = Str("wrist_pitch")
        BY DEF AllJoints
      <3>3. \A i \in 1 .. 5 : PyMatch(AllJoints[i], ActionId)
        <4>1. \A name \in {"base_yaw", "base_pitch", "elbow_pitch", "wrist_roll", "wrist_pitch"} :
                PyMatch(Str(name), ActionId)
          BY StrIs DEF PyMatch, ActionId
        <4> QED BY <3>2, <4>1
      <3>4. \A i, j \in 1 .. 5 : AllJoints[i] = AllJoints[j] => i = j
        <4>1. \A a, b : Str(a) = Str(b) => a = b
          BY DEF Str
        <4> QED BY <3>2, <4>1
      <3> QED BY <3>1, <3>2, <3>3, <3>4 DEF PyUniqueTexts, PyUnique
    <2>3. PyPreset(Obj(Preset))
      BY DEF PyPreset, PyFields, PyKeys, Obj, IsObj, Preset, PyMatch, IsStr, Str, ActionId
    <2>4. /\ IsArr(Arr(<<Obj(Preset)>>)) /\ Arr(<<Obj(Preset)>>).arr = <<Obj(Preset)>>
      BY DEF IsArr, Arr
    <2> HIDE DEF motion
    <2> QED BY <2>1, <2>2, <2>3, <2>4, ObjIs DEF PyMotionCapability, PyFields, PyKeys, PyUnique
  <1>5. PyLight(Obj(head))
    <2>1. /\ DOMAIN head = {"target", "kind", "width", "height"}
          /\ head["target"] = Str("head_matrix") /\ head["kind"] = Str("rgb_matrix")
          /\ head["width"] = Whole(1) /\ head["height"] = Whole(1)
      BY DEF HeadMatrix, With, Matrix
    <2>2. PyMatch(Str("head_matrix"), ActionId) /\ PyEnum(Str("rgb_matrix"), {"rgb_matrix"})
      BY StrIs DEF PyMatch, ActionId, PyEnum
    <2>3. PyInteger(Whole(1), 1)
      BY DEF PyInteger, IsNum, Whole
    <2> HIDE DEF head
    <2> QED BY <2>1, <2>2, <2>3, ObjIs DEF PyLight, PyFields, PyKeys
  <1>6. IsArr(Arr(<<Obj(head)>>)) /\ Arr(<<Obj(head)>>).arr = <<Obj(head)>>
    BY DEF IsArr, Arr
  <1> HIDE DEF caps, commands, motion, head
  <1>7. PyCapabilities(Obj(caps))
    BY <1>1, <1>2, <1>3, <1>4, <1>5, <1>6, ObjIs DEF PyCapabilities, PyFields, PyKeys
  <1> QED BY <1>7 DEF caps

LEMMA StateIsValid == PyState(Obj(State), Str("lefly"))
  <1> DEFINE strip == [color |-> Black, effect |-> Str("solid")]
             queue == [size |-> Whole(0), capacity |-> Whole(2)]
             status == [mode |-> Str("active")]
             caps == Capabilities(AllJoints, 1)
             motion == Motion("idle", Null, Pose(0, 0))
             light == Light(<<Black>>, 0)
  <1>1. /\ State["capabilities"] = Obj(caps) /\ State["motion"] = Obj(motion)
        /\ State["light"] = Obj(light) /\ State["status"] = Obj(status)
        /\ State["status_strip"] = Obj(strip) /\ State["command_queue"] = Obj(queue)
        /\ DOMAIN State = StateFields /\ State["device_id"] = Str("lefly")
        /\ State["revision"] = Whole(0) /\ State["connection"] = Str("ready")
    BY DEF State, StateFields
  <1>2. PyFields(Obj(strip), {"color", "effect"}) /\ PyMatch(strip["color"], Color)
        /\ PyEnum(strip["effect"], StatusEffects)
    BY ObjIs, StrIs DEF PyFields, PyKeys, PyMatch, PyEnum, Black, Color, StatusEffects
  <1>3. PyFields(Obj(status), {"mode"}) /\ PyEnum(status["mode"], StatusModes)
    BY ObjIs, StrIs DEF PyFields, PyKeys, PyEnum, StatusModes
  <1>4. PyQueue(Obj(queue))
    BY ObjIs DEF PyQueue, PyFields, PyKeys, PyInteger, IsNum, Whole
  <1>5. PyCapabilities(Obj(caps))
    BY CapabilitiesAreValid
  <1>6. {x.str : x \in ToSet(caps["motion"].obj["joints"].arr)} = LEFLY_JOINT_NAMES
    <2>1. caps["motion"].obj["joints"].arr = AllJoints
      BY ObjIs DEF Capabilities, Arr
    <2>2. ToSet(AllJoints) = {Str(name) : name \in LEFLY_JOINT_NAMES}
      BY DEF AllJoints, ToSet, LEFLY_JOINT_NAMES
    <2>3. {x.str : x \in {Str(name) : name \in LEFLY_JOINT_NAMES}} = LEFLY_JOINT_NAMES
      BY StrIs
    <2> HIDE DEF caps
    <2> QED BY <2>1, <2>2, <2>3
  <1>7. PyMotionState(Obj(motion), LEFLY_JOINT_NAMES)
    <2>1. /\ DOMAIN motion = {"state", "action", "joints"} /\ motion["state"] = Str("idle")
          /\ motion["action"] = Null /\ motion["joints"] = Obj(Pose(0, 0))
      BY DEF Motion
    <2>2. /\ DOMAIN Pose(0, 0) = LEFLY_JOINT_NAMES
          /\ \A name \in LEFLY_JOINT_NAMES : Pose(0, 0)[name] = Joint(0)
      BY DEF Pose
    <2>3. PyJoint(Joint(0))
      BY DEF PyJoint, Joint, PyFields, PyKeys, Obj, IsObj, IsNum, Halves, Whole
    <2> HIDE DEF motion
    <2> QED BY <2>1, <2>2, <2>3, ObjIs, StrIs DEF PyMotionState, PyFields, PyKeys, PyEnum
  <1>8. PyLightState(Obj(light), caps["lights"].arr)
    <2>1. /\ DOMAIN light = {"brightness", "matrix", "pixels"}
          /\ light["brightness"] = Halves(0) /\ light["matrix"] = Obj(Matrix(1))
          /\ light["pixels"] = Arr(<<Black>>)
      BY DEF Light
    <2>2. /\ DOMAIN Matrix(1) = {"width", "height"}
          /\ Matrix(1)["width"] = Whole(1) /\ Matrix(1)["height"] = Whole(1)
      BY DEF Matrix
    <2>3. PyInteger(Whole(1), 1) /\ Whole(1).num = 2 /\ PyNumberRange(Halves(0), 0, 1)
      BY DEF PyInteger, PyNumberRange, IsNum, Whole, Halves
    <2>4. PyColors(Arr(<<Black>>)) /\ Len(Arr(<<Black>>).arr) = 1
      BY DEF PyColors, PyMatch, Arr, IsArr, Black, Str, IsStr, Color
    <2>5. caps["lights"].arr = <<Obj(HeadMatrix(1))>>
      BY DEF Capabilities, Arr
    <2> DEFINE lights == caps["lights"].arr
               head == {i \in DOMAIN lights : lights[i].obj["target"] = Str("head_matrix")}
    <2>6. /\ HeadMatrix(1)["target"] = Str("head_matrix")
          /\ HeadMatrix(1)["width"] = Whole(1) /\ HeadMatrix(1)["height"] = Whole(1)
      BY DEF HeadMatrix, With, Matrix
    <2>7. head = {1}
      BY <2>5, <2>6, ObjIs
    <2>8. Cardinality(head) = 1
      BY <2>7, FS_Singleton
    <2>9. \A i \in head : lights[i].obj["width"] = Whole(1) /\ lights[i].obj["height"] = Whole(1)
      BY <2>5, <2>6, <2>7, ObjIs
    <2>10. /\ PyFields(Obj(light), {"brightness", "matrix", "pixels"})
           /\ PyFields(Obj(Matrix(1)), {"width", "height"})
      <3> HIDE DEF light
      <3> QED BY <2>1, <2>2, ObjIs DEF PyFields, PyKeys
    <2>11. 4 * Len(Arr(<<Black>>).arr) = Matrix(1)["width"].num * Matrix(1)["height"].num
      <3>1. Matrix(1)["width"].num = 2 /\ Matrix(1)["height"].num = 2
        BY <2>2, <2>3
      <3>2. Len(Arr(<<Black>>).arr) = 1
        BY <2>4
      <3>3. 4 * 1 = 2 * 2
        OBVIOUS
      <3> QED BY <3>1, <3>2, <3>3
    <2> HIDE DEF light, lights, caps
    <2> QED BY <2>1, <2>2, <2>3, <2>4, <2>8, <2>9, <2>10, <2>11, ObjIs
            DEF PyLightState, lights, head
  <1>9. /\ PyMatch(Str("lefly"), DeviceId) /\ PyInteger(Whole(0), 0)
        /\ PyEnum(Str("ready"), {"connecting", "ready", "degraded", "offline"})
    BY StrIs DEF PyMatch, DeviceId, PyInteger, IsNum, Whole, PyEnum
  <1>10. PyExtensions(State)
    BY <1>1 DEF PyExtensions, StateFields
  <1> HIDE DEF strip, queue, status, caps, motion, light
  <1> QED BY <1>1, <1>2, <1>3, <1>4, <1>5, <1>6, <1>7, <1>8, <1>9, <1>10, ObjIs
          DEF PyState, PyKeys

LEMMA ChangedStateIsRead == ParseDeviceEvent(Envelope("device.state_changed", State))
  <1> DEFINE type == "device.state_changed"
             e == Envelope(type, State)
  <1>1. /\ DOMAIN e = EnvelopeFields
        /\ e["version"] = Str("1") /\ e["id"] = Str("id1") /\ e["type"] = Str(type)
        /\ e["timestamp"] = Str("t1") /\ e["device_id"] = Str("lefly")
        /\ e["payload"] = Obj(State)
    BY EnvelopeIs
  <1>2. JsonFields(e)
    BY StateIsBare, EnvelopesAreJson DEF Bare
  <1>3. e = [f \in EnvelopeFields |-> e[f]]
    BY <1>1 DEF Envelope
  <1> HIDE DEF e
  <1>4. "correlation_id" \notin DOMAIN e /\ ~HasCorrelation(e)
    BY <1>1 DEF EnvelopeFields, HasCorrelation
  <1>5. PyEnvelope(e)
    <2>1. PyMatch(Str("1"), Version) /\ PyMatch(Str("id1"), Uuid)
          /\ PyMatch(Str(type), MessageType) /\ PyMatch(Str("t1"), Timestamp)
          /\ PyMatch(Str("lefly"), DeviceId)
      BY StrIs DEF PyMatch, Version, Uuid, MessageType, EventTypes, Timestamp, DeviceId
    <2> QED BY <1>1, <1>4, <2>1, ObjIs DEF PyEnvelope, PyKeys
  <1>6. PyExtensions(State)
    BY StateIsBare DEF Bare, PyExtensions
  <1>7. PyEventPayload(type, State, Str("lefly"))
    BY StateIsValid DEF PyEventPayload
  <1>8. PyEvent(e)
    BY <1>1, <1>4, <1>5, <1>6, <1>7, ObjIs, StrIs DEF PyEvent, Correlated, Sensors
  <1>9. Forwarded(e) = e
    BY <1>1, <1>3, <1>4 DEF Forwarded
  <1>10. ParseDeviceEvent(e)
    <2>1. ~NullExtensions(e["payload"].obj)
      BY <1>1, StateIsBare, ObjIs DEF Bare, NullExtensions
    <2>2. e["timestamp"] # Str("wide")
      BY <1>1 DEF Str
    <2> QED BY <1>2, <1>8, <1>9, <2>1, <2>2, EventsAgree
  <1> QED BY <1>10 DEF e

LEMMA InjectionsAreAccepted ==
    ASSUME NEW i \in Injections
    PROVE  /\ i.sensor_type \in {"touch", "gesture", "face"} /\ JsonFields(i.payload)
           /\ ~KnownInjection(i) => SensorEvents(i) # {}
  <1> DEFINE sightings == {InjectId(type, id, label) :
               type \in {"gesture", "face"}, id \in {0, 2, Exponent}, label \in Texts}
  <1>4. Injections = TouchControls \union sightings
    BY DEF Injections
  <1>1. CASE i \in TouchControls
    <2>1. PICK p \in {"left", "middle", "right"} :
            i = [sensor_type |-> "touch", payload |-> [position |-> Str(p)]]
      BY <1>1 DEF TouchControls
    <2>2. JsonFields(i.payload)
      BY <2>1, LeavesAreJson DEF JsonFields
    <2>3. PyEnum(Str(p), {"left", "middle", "right"})
      BY StrIs DEF PyEnum
    <2>4. TouchEvent(i.payload) # {}
      BY <2>1, <2>3 DEF TouchEvent
    <2> QED BY <2>1, <2>2, <2>4 DEF SensorEvents
  <1>2. CASE i \in sightings
    <2>1. PICK type \in {"gesture", "face"}, id \in {0, 2, Exponent}, label \in Texts :
            i = InjectId(type, id, label)
      BY <1>2
    <2> DEFINE p == i.payload
               given(f) == IF f \in DOMAIN p THEN p[f] ELSE Null
    <2>2. /\ i.sensor_type = type /\ "id" \in DOMAIN p /\ p["id"] = Number(id)
          /\ DOMAIN p = {"id"}
             \/ (DOMAIN p = {"id", "label"} /\ p["label"] = Str(Trim(label)))
      <3>2. \/ p = [id |-> Number(id)]
            \/ p = [id |-> Number(id), label |-> Str(Trim(label))]
        BY <2>1 DEF InjectId
      <3>3. i.sensor_type = type
        BY <2>1 DEF InjectId
      <3> HIDE DEF p
      <3> QED BY <3>2, <3>3
    <2>5. JsonFields(p)
      <3>1. id \in Int
        BY DEF Exponent
      <3>2. IsJson(Number(id)) /\ IsJson(Str(Trim(label)))
        BY <3>1, LeavesAreJson
      <3> HIDE DEF p
      <3> QED BY <2>2, <3>2 DEF JsonFields
    <2>a. ASSUME ~KnownInjection(i)
          PROVE  SensorEvents(i) # {}
      <3>1. /\ ~(p["id"].num >= Exponent)
            /\ "label" \in DOMAIN p => Strip(p["label"].str) # ""
        BY <2>2, <2>a DEF KnownInjection
      <3>2. Number(id).num = id
        BY DEF Number
      <3>3. id \in {0, 2}
        <4>1. Exponent >= Exponent
          BY DEF Exponent
        <4> HIDE DEF p
        <4> QED BY <2>2, <3>1, <3>2, <4>1
      <3>4. PyInteger(Number(id), 0)
        <4> DEFINE dot == id % 2 # 0 \/ id >= Exponent
        <4>1. dot = FALSE
          <5>1. 0 % 2 = 0 /\ 2 % 2 = 0 /\ ~(0 >= Exponent) /\ ~(2 >= Exponent)
            BY DEF Exponent
          <5> QED BY <3>3, <5>1
        <4>2. Number(id) = [num |-> id, dot |-> dot]
          BY DEF Number
        <4> HIDE DEF dot
        <4> QED BY <3>3, <4>1, <4>2 DEF PyInteger, IsNum
      <3> HIDE DEF p
      <3>6. \/ given("label") = Null
            \/ IsStr(given("label")) /\ Strip(given("label").str) # ""
        BY <2>2, <3>1, StrIs
      <3>7. given("confidence") = Null
        BY <2>2
      <3>8. VisionEvent(type, p) # {}
        BY <2>2, <3>4, <3>6, <3>7 DEF VisionEvent
      <3> QED BY <2>2, <3>8 DEF SensorEvents, p
    <2> QED BY <2>2, <2>5, <2>a
  <1> HIDE DEF sightings
  <1> QED BY <1>1, <1>2, <1>4

(* A command is accepted with any identifier that is a UUID.               *)
LEMMA IdentifiersAreFree ==
    ASSUME NEW c, PyCommand(c), ParseDeviceCommand(c)
    PROVE  LET d == With(c, "id", Str("id1")) IN
           PyCommand(d) /\ ParseDeviceCommand(d)
  <1> DEFINE d == With(c, "id", Str("id1"))
  <1>1. EnvelopeFields \subseteq DOMAIN c
    BY DEF PyCommand, PyEnvelope, PyKeys
  <1>2. /\ DOMAIN d = DOMAIN c /\ d["id"] = Str("id1")
        /\ \A f \in DOMAIN c \ {"id"} : d[f] = c[f]
    BY <1>1 DEF With, EnvelopeFields
  <1> HIDE DEF d
  <1>3. /\ d["version"] = c["version"] /\ d["type"] = c["type"]
        /\ d["timestamp"] = c["timestamp"] /\ d["device_id"] = c["device_id"]
        /\ d["payload"] = c["payload"]
        /\ "correlation_id" \in DOMAIN c => d["correlation_id"] = c["correlation_id"]
    BY <1>1, <1>2 DEF EnvelopeFields
  <1>4. PyMatch(d["id"], Uuid) /\ Matches(d["id"], UUID)
    BY <1>2, StrIs DEF PyMatch, Matches, Uuid, UUID
  <1>5. HasCorrelation(d) <=> HasCorrelation(c)
    BY <1>2, <1>3 DEF HasCorrelation
  <1>6. PyEnvelope(c) /\ ~HasCorrelation(c)
    BY DEF PyCommand
  <1>7. PyEnvelope(d)
    BY <1>2, <1>3, <1>4, <1>5, <1>6 DEF PyEnvelope, PyKeys
  <1>8. PyCommand(d)
    <2> DEFINE Fits(x) ==
          LET type == x["type"].str
              p == x["payload"].obj
          IN type \in CommandTypes =>
            /\ PyKeys(p, CommandFields(type), {"extensions"})
            /\ "name" \in DOMAIN p => PyMatch(p["name"], ActionId)
            /\ "joints" \in DOMAIN p =>
                 /\ PyJointNumbers(p["joints"]) /\ DOMAIN p["joints"].obj # {}
                 /\ PyIntegerRange(p["duration_ms"], 1, 60000)
            /\ "target" \in DOMAIN p => p["target"] = Str("head_matrix")
            /\ "color" \in DOMAIN p => PyMatch(p["color"], Color)
            /\ "pixels" \in DOMAIN p => PyColors(p["pixels"])
            /\ "brightness" \in DOMAIN p => PyNumberRange(p["brightness"], 0, 1)
            /\ "mode" \in DOMAIN p => PyEnum(p["mode"], StatusModes)
            /\ PyExtensions(p)
    <2>1. \A x : PyCommand(x) <=> (PyEnvelope(x) /\ ~HasCorrelation(x) /\ Fits(x))
      BY DEF PyCommand
    <2>2. Fits(d) <=> Fits(c)
      BY <1>3
    <2> HIDE DEF Fits
    <2> QED BY <1>5, <1>6, <1>7, <2>1, <2>2
  <1>9. ValidEnvelope(c, {}) /\ ("correlation_id" \notin DOMAIN c)
    BY DEF ParseDeviceCommand, ValidEnvelope, Keys
  <1>10. Keys(d, {"version", "id", "type", "timestamp", "device_id", "payload"}, {})
    BY <1>2, <1>9 DEF ValidEnvelope, Keys
  <1>11. ValidEnvelope(d, {})
    BY <1>2, <1>3, <1>4, <1>9, <1>10 DEF ValidEnvelope
  <1>12. ParseDeviceCommand(d)
    BY <1>3, <1>11, Zenon DEF ParseDeviceCommand
  <1> QED BY <1>8, <1>12 DEF d

-----------------------------------------------------------------------------
(* Of what one end lets out, only what is named is refused at the other.   *)
LEMMA NothingIsRefused == ~SomethingIsRefused
  <1>1. ASSUME NEW m \in FromGateway \ Accepted PROVE KnownFromGateway(m)
    <2>1. m \in GatewaySends(States, Events) /\ ~ParseConsoleIncoming(m)
      BY DEF FromGateway, Accepted
    <2>2. /\ \A s \in States : NullExtensions(s) \/ IsDeviceState(Obj(s))
          /\ \A e \in Events : \/ WideTime(e) \/ NullExtensions(e["payload"].obj)
                               \/ ParseDeviceEvent(e)
          /\ ParseDeviceEvent(Envelope("device.state_changed", State))
      BY ListedStatesAreRead, ListedEventsAreRead, ChangedStateIsRead
    <2> QED BY <2>1, <2>2, GatewayAgrees
  <1>2. ASSUME NEW m \in FromAgent, ~KnownFromAgent(m) PROVE ParseAgentIncoming(m)
    BY <1>2, AgentAgrees
  <1>3. ASSUME NEW c \in FromPage, ~KnownFromPage(c)
        PROVE  PyCommand(c) /\ ParseDeviceCommand(c)
    <2> DEFINE shownStates == {t \in States : IsDeviceState(Obj(t))}
               sent == UNION {FromControls(s) : s \in shownStates}
    <2>1. PICK b \in sent, id \in Ids : c = With(b, "id", Str(id))
      BY DEF FromPage
    <2>2. PICK s \in shownStates : b \in FromControls(s)
      OBVIOUS
    <2>3. JsonFields(s) /\ PyState(Obj(s), Str("lefly"))
      BY ListedStatesAreRead DEF States
    <2>4. PyCommand(b) /\ ParseDeviceCommand(b)
      BY <2>2, <2>3, PageAgrees
    <2>5. id = "id1"
      <3>1. c["id"] = Str(id)
        BY <2>1 DEF With
      <3> QED BY <1>3, <3>1 DEF KnownFromPage, Ids
    <2>6. c = With(b, "id", Str("id1"))
      BY <2>1, <2>5
    <2> QED BY <2>4, <2>6, IdentifiersAreFree
  <1>4. ASSUME NEW c \in FromComposer, ~KnownFromComposer(c) PROVE PySubmission(c)
    BY <1>4, SubmissionsAgree DEF FromComposer
  <1>5. ASSUME NEW i \in Injections, ~KnownInjection(i)
        PROVE  \E e \in SensorEvents(i) : ParseDeviceEvent(e)
    BY <1>5, InjectionsAreAccepted, InjectionsAgree
  <1> QED BY <1>1, <1>2, <1>3, <1>4, <1>5 DEF SomethingIsRefused

(* What the gateway and the agent let out is read by the page, and every   *)
(* command, text and injection of the page is accepted, but for what       *)
(* KnownFromGateway, KnownFromAgent, KnownFromPage, KnownFromComposer and  *)
(* KnownInjection name: the two validators agree on the rest.              *)
THEOREM BothEndsAlwaysAgree == Spec => []BothEndsAgree
  <1>1. Init => BothEndsAgree
    BY DEF Init, BothEndsAgree
  <1>2. BothEndsAgree /\ [Next]_vars => BothEndsAgree'
    <2> SUFFICES ASSUME ~refused, [Next]_vars PROVE ~refused'
      BY DEF BothEndsAgree
    <2>1. CASE Hear
      BY <2>1, NothingIsRefused DEF Hear
    <2>2. CASE SelectTarget \/ OpenWorkspace \/ Render \/ Flush \/ Crash
      BY <2>2 DEF SelectTarget, OpenWorkspace, Render, Flush, Crash
    <2>3. CASE Frame \/ FrameFails \/ Resize
      BY <2>3 DEF Frame, FrameFails, Resize, Changed
    <2>4. CASE UNCHANGED vars
      BY <2>4 DEF vars
    <2> QED BY <2>1, <2>2, <2>3, <2>4 DEF Next
  <1> QED BY <1>1, <1>2, PTL DEF Spec
=============================================================================
