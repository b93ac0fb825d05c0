-------------------------------- MODULE Lamp --------------------------------
(***************************************************************************)
(* The drawn robot: createLeFlyModel.ts and statusStripAnimation.ts        *)
(* (packages/lefly-console-web/src/scene).  Its scene graph is a table of  *)
(* groups and meshes; what may change of it is a record, the lamp.         *)
(*                                                                         *)
(* Time is counted in half seconds and levels in percent.  A color of a    *)
(* state the page accepted is well formed, its brightness finite.          *)
(***************************************************************************)
EXTENDS Integers, Sequences

LEFLY_JOINT_NAMES ==
    {"base_yaw", "base_pitch", "elbow_pitch", "wrist_roll", "wrist_pitch"}

WARM_LIGHT == "#ffd6a0"
STATUS_BLUE == "#31a8ff"
BLACK == "#000000"

-----------------------------------------------------------------------------
(* The scene graph                                                         *)
Parent == [base_yaw |-> "root", base_pitch |-> "base_yaw",
           elbow_pitch |-> "base_pitch", wrist_roll |-> "elbow_pitch",
           wrist_pitch |-> "wrist_roll", head |-> "wrist_pitch"]

Segments == {"segment-00", "segment-01", "segment-02", "segment-03",
             "segment-04", "segment-05", "segment-06", "segment-07",
             "segment-08", "segment-09", "segment-10", "segment-11"}

Materials == {"body", "edge", "display", "headLight", "nearGlow", "farGlow",
              "status"} \union Segments

AddMesh(parent, geometry, material) ==
    [parent |-> parent, geometry |-> geometry, material |-> material]

(* Both hinges of the arm share a geometry.                                *)
Meshes ==
    {AddMesh("root", "metal-base", "body"), AddMesh("root", "base-inset", "edge"),
     AddMesh("root", "status-strip", "status"),
     AddMesh("base_yaw", "yaw-collar", "edge"),
     AddMesh("base_pitch", "pitch-hinge", "edge"),
     AddMesh("base_pitch", "lower-arm", "body"),
     AddMesh("base_pitch", "lower-arm-spine", "edge"),
     AddMesh("elbow_pitch", "pitch-hinge", "edge"),
     AddMesh("elbow_pitch", "upper-arm", "body"),
     AddMesh("elbow_pitch", "upper-arm-spine", "edge"),
     AddMesh("elbow_pitch", "wrist-roll-housing", "edge"),
     AddMesh("wrist_pitch", "wrist-pitch-hinge", "edge"),
     AddMesh("head", "wedge-head-shell", "body"),
     AddMesh("head", "head-rear-band", "edge"),
     AddMesh("head", "head-light-surface", "headLight"),
     AddMesh("head", "head-light-glow-far", "farGlow"),
     AddMesh("head", "head-light-glow-near", "nearGlow"),
     AddMesh("head", "left-display-screen", "display"),
     AddMesh("head", "right-display-screen", "display")}
    \union {AddMesh("root", s, s) : s \in Segments}

Created == {m.geometry : m \in Meshes} \union Materials

(* root.traverse: the groups n levels below the root.                      *)
Traversed[n \in 0 .. 6] ==
    IF n = 0 THEN {"root"}
    ELSE LET above == Traversed[n - 1]
         IN above \union {g \in DOMAIN Parent : Parent[g] \in above}

(* dispose: the geometry and the material of every mesh it meets.          *)
Disposed ==
    LET met == {m \in Meshes : m.parent \in Traversed[6]}
    IN {m.geometry : m \in met} \union {m.material : m \in met}

-----------------------------------------------------------------------------
(* statusStripLevels: the levels of the n segments after t half seconds.   *)
Dim == 12
Breath == <<12, 25, 56, 87, 100, 87, 56, 25>>

StatusStripLevels(effect, t, n) ==
    [i \in 0 .. n - 1 |->
        CASE effect = "solid" -> 100
          [] effect = "fade" -> IF 5 * t >= 12 THEN 100 ELSE Dim + (88 * 5 * t) \div 12
          [] effect = "breath" -> Breath[(t % 8) + 1]
          [] effect = "marquee" ->
               LET behind == (((2 * t) % n) - i + n) % n IN
               IF behind < 3 THEN <<100, 65, 30>>[behind + 1] ELSE Dim
          [] effect = "level_sweep" -> IF i < ((t % 3) * n) \div 3 + 1 THEN 100 ELSE Dim
          [] OTHER -> IF t % 2 = 0 THEN 100 ELSE Dim]

(* statusStripSurfaceLevel: a lit surface keeps at most a quarter of the   *)
(* color it emits, so that only black is left as it is.                    *)
Surface(emitted) == IF emitted = BLACK THEN BLACK ELSE "darkened"

-----------------------------------------------------------------------------
(* The lamp.  since: half seconds since the effect started, as the last    *)
(* frame saw it, up to LongSince; before the first frame the model's clock *)
(* stands at zero, and the browser's is far ahead of it.                   *)
LongSince == 3
Unclocked == -1

NewLamp ==
    [pivots |-> [j \in LEFLY_JOINT_NAMES |-> 0],
     light |-> [color |-> WARM_LIGHT, brightness |-> 2],
     strip |-> [emitted |-> STATUS_BLUE, surface |-> STATUS_BLUE,
                effect |-> "solid", since |-> Unclocked]]

(* A joint that is left out stays where it is.                             *)
SetJointPositions(lamp, joints) ==
    [lamp EXCEPT !.pivots =
        [j \in LEFLY_JOINT_NAMES |-> IF j \in DOMAIN joints THEN joints[j] ELSE @[j]]]

(* The surface, both glows and the light it casts are set together.        *)
SetHeadLight(lamp, color, brightness) ==
    [lamp EXCEPT !.light = [color |-> color, brightness |-> brightness]]

(* The color is compared with what the last frame left on the surface.     *)
SetStatusStrip(lamp, color, effect) ==
    LET strip == lamp.strip
        restarts == strip.surface # color \/ strip.effect # effect
    IN [lamp EXCEPT !.strip =
          [emitted |-> color, surface |-> color, effect |-> effect,
           since |-> IF restarts /\ strip.since # Unclocked THEN 0 ELSE strip.since]]

(* Mutant: a frame restarts the effect of a strip whose surface differs.   *)
UpdateRestarting(lamp) ==
    [lamp EXCEPT !.strip.since =
                    IF lamp.strip.surface # lamp.strip.emitted THEN 0 ELSE LongSince,
                 !.strip.surface = Surface(lamp.strip.emitted)]

(* update: a frame, half a second after the one before.                    *)
Update(lamp) ==
    [lamp EXCEPT !.strip.since =
                    IF @ \in {Unclocked, LongSince} THEN LongSince ELSE @ + 1,
                 !.strip.surface = Surface(lamp.strip.emitted)]

(* What is seen of it.                                                     *)
Picture(lamp) ==
    [pivots |-> lamp.pivots, light |-> lamp.light, color |-> lamp.strip.emitted,
     levels |-> StatusStripLevels(lamp.strip.effect, lamp.strip.since, 12)]
=============================================================================
