--------------------------- MODULE ConsoleHubProofs ---------------------------
(***************************************************************************)
(* Theorems of ConsoleHub, for any sessions, lifetime, queue capacity and  *)
(* bounds.                                                                 *)
(***************************************************************************)
EXTENDS ConsoleHub, TLAPS

USE LeaseAssumption, HubAssumption
    DEF LeaseAssumption, HubAssumption, vars, leaseVars, outVars

Roles == [role : {"readonly", "controller"}, until : Nat]

-----------------------------------------------------------------------------
(* Type correctness; a credential names the session that holds it          *)

OwnLease ==
    \A c \in Sessions : lease[c] # NoGrant => lease[c].owner = c

TypeInv == TypeOK /\ OwnLease

LEMMA OfferType ==
    ASSUME TypeOK, NEW to, NEW what,
           \A c \in to : what[c] = Other \/ what[c] \in Roles,
           to \subseteq Sessions,
           Offer(to, what)
    PROVE  /\ outbound' \in [Sessions -> 0 .. OutboundCapacity]
           /\ overflown' \subseteq Sessions
           /\ told' \in [Sessions -> Roles]
  <1> DEFINE takes(c) == c \in to \ overflown /\ outbound[c] < OutboundCapacity
  <1>1. /\ outbound' = [c \in Sessions |->
                          IF takes(c) THEN outbound[c] + 1 ELSE outbound[c]]
        /\ told' = [c \in Sessions |->
                      IF takes(c) /\ what[c] # Other THEN what[c] ELSE told[c]]
        /\ overflown' = overflown \union
                          {c \in to : outbound[c] = OutboundCapacity}
    BY DEF Offer
  <1>2. \A c \in Sessions : outbound[c] \in 0 .. OutboundCapacity
                            /\ told[c] \in Roles
    BY DEF TypeOK, Roles
  <1>3. \A c \in Sessions : takes(c) => outbound[c] + 1 \in 0 .. OutboundCapacity
    BY <1>2
  <1>4. \A c \in Sessions : takes(c) /\ what[c] # Other => what[c] \in Roles
    OBVIOUS
  <1> HIDE DEF takes
  <1>5. outbound' \in [Sessions -> 0 .. OutboundCapacity]
    BY <1>1, <1>2, <1>3
  <1>6. told' \in [Sessions -> Roles]
    BY <1>1, <1>2, <1>4
  <1>7. overflown' \subseteq Sessions
    BY <1>1 DEF TypeOK
  <1> QED BY <1>5, <1>6, <1>7

LEMMA TellType ==
    ASSUME TypeOK, NEW c \in Sessions, NEW what,
           what = Other \/ what \in Roles,
           Tell(c, what)
    PROVE  /\ outbound' \in [Sessions -> 0 .. OutboundCapacity]
           /\ overflown' \subseteq Sessions
           /\ told' \in [Sessions -> Roles]
  <1> DEFINE f == [d \in {c} |-> what]
  <1>1. Offer({c}, f)
    BY DEF Tell
  <1>2. \A d \in {c} : f[d] = Other \/ f[d] \in Roles
    OBVIOUS
  <1> HIDE DEF f
  <1> QED BY <1>1, <1>2, OfferType

LEMMA ReadOnlyIsRole == ReadOnly \in Roles
  BY DEF ReadOnly, Roles

LEMMA ControllerIsRole ==
    ASSUME NEW g \in Grant PROVE Controller(g) \in Roles
  BY DEF Controller, Roles, Grant

(* A grant issued to c now is a grant, its own, and not expired.           *)
LEMMA AcquiredGrant ==
    ASSUME TypeOK, NEW c \in Sessions
    PROVE  /\ Acquired(c, tokens, now) \in Grant
           /\ Acquired(c, tokens, now) # NoGrant
           /\ Acquired(c, tokens, now).owner = c
  BY DEF Acquired, Grant, TypeOK

LEMMA RenewedGrant ==
    ASSUME TypeOK, grant # NoGrant
    PROVE  /\ Renewed(grant, now) \in Grant
           /\ Renewed(grant, now) # NoGrant
           /\ SameCredential(Renewed(grant, now), grant)
  BY DEF Renewed, Grant, TypeOK, SameCredential

(* The router accepts only the credential of the current owner.            *)
LEMMA ValidIsOwner ==
    ASSUME TypeInv, NEW c \in Sessions, Valid(lease[c], grant, now)
    PROVE  /\ grant # NoGrant /\ grant.owner = c /\ lease[c] # NoGrant
           /\ Active = grant
  BY DEF TypeInv, OwnLease, Valid, Unexpired, SameCredential, Active

(* The types of what Offer changes.                                        *)
OutType ==
    /\ outbound \in [Sessions -> 0 .. OutboundCapacity]
    /\ overflown \subseteq Sessions
    /\ told \in [Sessions -> Roles]

(* The types of the lease's state.                                         *)
LeaseType ==
    /\ tokens \in Nat
    /\ grant \in Grant \union {NoGrant}
    /\ lease \in [Sessions -> Grant \union {NoGrant}]
    /\ OwnLease

HubType ==
    /\ now \in Nat
    /\ status \in [Sessions -> {"new", "open", "ending", "gone"}]
    /\ busy \subseteq Sessions
    /\ echoed \in BOOLEAN

LEMMA TypeParts == ASSUME OutType', LeaseType', HubType' PROVE TypeInv'
  BY DEF TypeInv, TypeOK, OutType, LeaseType, HubType, Roles

(* Granting the free or released lease to c.                               *)
LEMMA GrantToType ==
    ASSUME TypeInv, NEW c \in Sessions,
           tokens' = tokens + 1, grant' = Acquired(c, tokens, now),
           NEW base \in [Sessions -> Grant \union {NoGrant}],
           \A d \in Sessions : base[d] # NoGrant => base[d].owner = d,
           lease' = [base EXCEPT ![c] = grant']
    PROVE  LeaseType' /\ Controller(grant') \in Roles
  <1>1. /\ grant' \in Grant /\ grant' # NoGrant /\ grant'.owner = c
    BY AcquiredGrant DEF TypeInv
  <1>2. OwnLease'
    BY <1>1 DEF OwnLease
  <1> QED BY <1>1, <1>2, ControllerIsRole DEF TypeInv, TypeOK, LeaseType

(* Dropping the credential of c.                                           *)
LEMMA DropType ==
    ASSUME TypeInv, NEW c \in Sessions,
           UNCHANGED tokens, grant' \in {grant, NoGrant},
           lease' \in {lease, [lease EXCEPT ![c] = NoGrant]}
    PROVE  LeaseType'
  BY DEF TypeInv, TypeOK, OwnLease, LeaseType

LEMMA ConnectType ==
    ASSUME TypeInv, NEW c \in Sessions, Connect(c)
    PROVE  TypeInv'
  <1>1. HubType'
    BY DEF Connect, HubType, TypeInv, TypeOK
  <1>2. OutType' /\ LeaseType'
    <2>1. CASE Active = NoGrant
      <3>1. LeaseType' /\ Controller(grant') \in Roles
        BY <2>1, GrantToType DEF Connect, TypeInv, TypeOK, OwnLease
      <3> QED BY <2>1, <3>1, TellType DEF Connect, TypeInv, OutType
    <2>2. CASE Active # NoGrant
      <3>1. LeaseType'
        BY <2>2, DropType DEF Connect
      <3> QED BY <2>2, <3>1, TellType, ReadOnlyIsRole
              DEF Connect, TypeInv, OutType
    <2> QED BY <2>1, <2>2
  <1> QED BY <1>1, <1>2, TypeParts

LEMMA TakeFreeType ==
    ASSUME TypeInv, NEW c \in Sessions, TakeFree(c)
    PROVE  TypeInv'
  <1>1. HubType'
    BY DEF TakeFree, HubType, TypeInv, TypeOK
  <1>2. LeaseType' /\ Controller(grant') \in Roles
    BY GrantToType DEF TakeFree, TypeInv, TypeOK, OwnLease
  <1>3. OutType'
    BY <1>2, TellType DEF TakeFree, TypeInv, OutType
  <1> QED BY <1>1, <1>2, <1>3, TypeParts

LEMMA TakeOwnType ==
    ASSUME TypeInv, NEW c \in Sessions, TakeOwn(c)
    PROVE  TypeInv'
  <1>1. HubType' /\ LeaseType'
    BY DropType DEF TakeOwn, HubType, TypeInv, TypeOK
  <1>2. Controller(lease[c]) \in Roles
    BY ControllerIsRole DEF TakeOwn, TypeInv, TypeOK
  <1>3. OutType'
    BY <1>2, TellType DEF TakeOwn, TypeInv, OutType
  <1> QED BY <1>1, <1>3, TypeParts

LEMMA TakeOverType ==
    ASSUME TypeInv, NEW c \in Sessions, TakeOver(c)
    PROVE  TypeInv'
  <1> DEFINE previous == Active.owner
             base == [lease EXCEPT ![previous] = NoGrant]
             words == [d \in {c, previous} |->
                         IF d = c THEN Controller(grant') ELSE ReadOnly]
  <1>1. HubType'
    BY DEF TakeOver, HubType, TypeInv, TypeOK
  <1>2. previous \in Sessions
    BY DEF TakeOver, Clients
  <1>3. base \in [Sessions -> Grant \union {NoGrant}]
    BY DEF TypeInv, TypeOK
  <1>4. \A d \in Sessions : base[d] # NoGrant => base[d].owner = d
    BY <1>2 DEF TypeInv, TypeOK, OwnLease
  <1>5. /\ lease' = [base EXCEPT ![c] = grant']
        /\ tokens' = tokens + 1 /\ grant' = Acquired(c, tokens, now)
        /\ Offer({c, previous}, words)
    BY DEF TakeOver
  <1>6. LeaseType' /\ Controller(grant') \in Roles
    BY <1>3, <1>4, <1>5, GrantToType
  <1>7. \A d \in {c, previous} : words[d] = Other \/ words[d] \in Roles
    BY <1>6, ReadOnlyIsRole
  <1> HIDE DEF previous, words
  <1>8. OutType'
    BY <1>2, <1>5, <1>7, OfferType DEF TypeInv, OutType
  <1> QED BY <1>1, <1>6, <1>8, TypeParts

LEMMA TakeFailsType ==
    ASSUME TypeInv, NEW c \in Sessions, TakeFails(c)
    PROVE  TypeInv'
  <1>1. HubType' /\ LeaseType'
    BY DropType DEF TakeFails, HubType, TypeInv, TypeOK
  <1>2. \E what \in {ReadOnly, Other} : Tell(c, what)
    BY DEF TakeFails
  <1>3. OutType'
    BY <1>2, TellType, ReadOnlyIsRole DEF TypeInv, OutType
  <1> QED BY <1>1, <1>3, TypeParts

LEMMA RenewType ==
    ASSUME TypeInv, NEW c \in Sessions, Renew(c)
    PROVE  TypeInv'
  <1>1. HubType'
    BY DEF Renew, HubType, TypeInv, TypeOK
  <1>2. OutType' /\ LeaseType'
    <2>1. CASE Valid(lease[c], grant, now)
      <3>1. grant # NoGrant /\ grant.owner = c
        BY <2>1, ValidIsOwner
      <3>2. /\ grant' = Renewed(grant, now) /\ lease' = [lease EXCEPT ![c] = grant']
            /\ Tell(c, Controller(grant')) /\ tokens' = tokens
        BY <2>1 DEF Renew
      <3>3. grant' \in Grant /\ grant' # NoGrant /\ grant'.owner = c
        BY <3>1, <3>2, RenewedGrant DEF TypeInv, SameCredential
      <3>4. LeaseType'
        BY <3>2, <3>3 DEF LeaseType, OwnLease, TypeInv, TypeOK
      <3>5. OutType'
        BY <3>2, <3>3, ControllerIsRole, TellType DEF TypeInv, OutType
      <3> QED BY <3>4, <3>5
    <2>2. CASE ~Valid(lease[c], grant, now)
      <3>1. LeaseType'
        BY <2>2, DropType DEF Renew
      <3> QED BY <2>2, <3>1, TellType, ReadOnlyIsRole DEF Renew, TypeInv, OutType
    <2> QED BY <2>1, <2>2
  <1> QED BY <1>1, <1>2, TypeParts

LEMMA AnsweredType ==
    ASSUME TypeInv, NEW c \in Sessions, Answered(c)
    PROVE  TypeInv'
  <1>1. HubType' /\ LeaseType'
    BY DropType DEF Answered, HubType, TypeInv, TypeOK
  <1>2. OutType'
    <2>1. CASE UNCHANGED <<lease, outVars>>
      BY <2>1 DEF TypeInv, TypeOK, OutType, Roles
    <2>2. CASE \E what \in {ReadOnly, Other} : Tell(c, what)
      BY <2>2, TellType, ReadOnlyIsRole DEF TypeInv, OutType
    <2> QED BY <2>1, <2>2 DEF Answered
  <1> QED BY <1>1, <1>2, TypeParts

LEMMA RemoveType ==
    ASSUME TypeInv, NEW c \in Sessions, Remove(c)
    PROVE  TypeInv'
  <1>1. LeaseType'
    BY DropType DEF Remove, Released
  <1>2. HubType' /\ OutType'
    BY DEF Remove, HubType, OutType, TypeInv, TypeOK, Roles
  <1> QED BY <1>1, <1>2, TypeParts

LEMMA RouteRefusedType ==
    ASSUME TypeInv, NEW c \in Sessions, RouteRefused(c)
    PROVE  TypeInv'
  <1>1. HubType' /\ LeaseType'
    BY DropType DEF RouteRefused, HubType, TypeInv, TypeOK
  <1>2. OutType'
    BY TellType, ReadOnlyIsRole DEF RouteRefused, TypeInv, OutType
  <1> QED BY <1>1, <1>2, TypeParts

LEMMA SendType ==
    ASSUME TypeInv, NEW c \in Sessions, Send(c)
    PROVE  TypeInv'
  <1>1. outbound[c] - 1 \in 0 .. OutboundCapacity
    BY DEF Send, TypeInv, TypeOK
  <1>2. OutType'
    BY <1>1 DEF Send, TypeInv, TypeOK, OutType, Roles
  <1>3. HubType' /\ LeaseType'
    BY DropType DEF Send, HubType, TypeInv, TypeOK
  <1> QED BY <1>2, <1>3, TypeParts

LEMMA BroadcastType ==
    ASSUME TypeInv, Broadcast
    PROVE  TypeInv'
  <1> DEFINE words == [c \in Clients |-> Other]
  <1>1. \A c \in Clients : words[c] = Other
    OBVIOUS
  <1>2. Offer(Clients, words) /\ Clients \subseteq Sessions
    BY DEF Broadcast, Clients
  <1> HIDE DEF words
  <1>3. OutType'
    BY <1>1, <1>2, OfferType DEF TypeInv, OutType
  <1>4. HubType' /\ LeaseType'
    BY DEF Broadcast, HubType, LeaseType, TypeInv, TypeOK, OwnLease
  <1> QED BY <1>3, <1>4, TypeParts

LEMMA TypeStep == TypeInv /\ [Next]_vars => TypeInv'
  <1> SUFFICES ASSUME TypeInv, [Next]_vars PROVE TypeInv'
    OBVIOUS
  <1>1. ASSUME NEW c \in Sessions, Route(c) \/ Disconnect(c) PROVE TypeInv'
    BY <1>1 DEF Route, Disconnect, TypeInv, TypeOK, OwnLease
  <1>2. CASE Tick \/ UNCHANGED vars
    BY <1>2 DEF Tick, TypeInv, TypeOK, OwnLease
  <1>3. ASSUME NEW c \in Sessions, Take(c) PROVE TypeInv'
    BY <1>3, TakeFreeType, TakeOwnType, TakeOverType, TakeFailsType DEF Take
  <1> HIDE DEF vars
  <1> QED BY <1>1, <1>2, <1>3, ConnectType, RenewType, RouteRefusedType,
             AnsweredType, RemoveType, SendType, BroadcastType DEF Next

LEMMA TypeInit == Init => TypeInv
  <1> SUFFICES ASSUME Init PROVE TypeInv
    OBVIOUS
  <1>1. echoed \in BOOLEAN
    BY Zenon DEF Init
  <1> QED BY <1>1, ReadOnlyIsRole DEF Init, TypeInv, TypeOK, OwnLease, Roles

LEMMA TypeInvariant == Spec => []TypeInv
  BY TypeInit, TypeStep, PTL DEF Spec

(* Every variable of the hub keeps its type; no OutboundQueue outgrows its *)
(* capacity.                                                               *)
THEOREM TypeCorrect == Spec => []TypeOK
  <1>1. TypeInv => TypeOK
    BY DEF TypeInv
  <1> QED BY <1>1, TypeInvariant, PTL

-----------------------------------------------------------------------------
(* One controller                                                          *)

(* Two sessions never hold credentials the router would accept.            *)
THEOREM OnlyOneController == Spec => []OneController
  <1>1. TypeInv => OneController
    BY ValidIsOwner DEF OneController
  <1> QED BY <1>1, TypeInvariant, PTL

(* A command is passed on only for the owner of the unexpired lease.       *)
THEOREM HolderRoutes == Spec => OnlyHolderRoutes
  <1> DEFINE A == \A c \in busy' \ busy : Active # NoGrant /\ Active.owner = c
  <1>1. TypeInv /\ [Next]_vars => [A]_vars
    <2> SUFFICES ASSUME TypeInv, Next PROVE A
      OBVIOUS
    <2>1. ASSUME NEW c \in Sessions, Route(c) PROVE A
      <3>1. busy' = busy \union {c} /\ Active # NoGrant /\ Active.owner = c
        BY <2>1, ValidIsOwner DEF Route
      <3> QED BY <3>1
    <2>2. ASSUME busy' \subseteq busy PROVE A
      BY <2>2
    <2>3. ASSUME NEW c \in Sessions,
                 \/ Connect(c) \/ Take(c) \/ Renew(c) \/ RouteRefused(c)
                 \/ Answered(c) \/ Disconnect(c) \/ Remove(c) \/ Send(c)
          PROVE  busy' \subseteq busy
      BY <2>3 DEF Connect, Take, TakeFree, TakeOwn, TakeOver, TakeFails, Renew,
                  RouteRefused, Answered, Disconnect, Remove, Send
    <2>4. ASSUME Broadcast \/ Tick PROVE busy' \subseteq busy
      BY <2>4 DEF Broadcast, Tick
    <2> HIDE DEF A
    <2> QED BY <2>1, <2>2, <2>3, <2>4 DEF Next
  <1>2. Spec => [][A]_vars
    BY <1>1, TypeInvariant, PTL DEF Spec
  <1> QED BY <1>2 DEF OnlyHolderRoutes

(* A session that leaves releases nobody else's lease.                     *)
THEOREM LeavingSparesTheHolder == Spec => LeavingSparesOthers
  <1> DEFINE A == \A c \in Sessions :
                    status'[c] = "gone" /\ status[c] # "gone" /\ Active # NoGrant =>
                      Active.owner = c \/ grant' = grant
  <1>1. TypeInv /\ [Next]_vars => [A]_vars
    <2> SUFFICES ASSUME TypeInv, Next PROVE A
      OBVIOUS
    <2>1. ASSUME NEW c \in Sessions, Remove(c) PROVE A
      <3>1. /\ status' = [status EXCEPT ![c] = "gone"]
            /\ grant' = IF Valid(lease[c], grant, now) THEN NoGrant ELSE grant
        BY <2>1 DEF Remove, Released
      <3>2. CASE Valid(lease[c], grant, now)
        BY <3>1, <3>2, ValidIsOwner DEF TypeInv, TypeOK
      <3>3. CASE ~Valid(lease[c], grant, now)
        BY <3>1, <3>3
      <3> QED BY <3>2, <3>3
    <2>2. ASSUME \A c \in Sessions : status'[c] = "gone" => status[c] = "gone"
          PROVE  A
      BY <2>2
    <2>3. ASSUME NEW c \in Sessions, Connect(c) \/ Disconnect(c) PROVE A
      BY <2>2, <2>3 DEF Connect, Disconnect, TypeInv, TypeOK
    <2>4. ASSUME NEW c \in Sessions,
                 \/ Take(c) \/ Renew(c) \/ Route(c) \/ RouteRefused(c)
                 \/ Answered(c) \/ Send(c)
          PROVE  A
      <3>1. UNCHANGED status
        BY <2>4 DEF Take, TakeFree, TakeOwn, TakeOver, TakeFails, Renew, Route,
                    RouteRefused, Answered, Send
      <3> QED BY <2>2, <3>1
    <2>5. ASSUME Broadcast \/ Tick PROVE A
      BY <2>2, <2>5 DEF Broadcast, Tick
    <2> HIDE DEF A
    <2> QED BY <2>1, <2>3, <2>4, <2>5 DEF Next
  <1>2. Spec => [][A]_vars
    BY <1>1, TypeInvariant, PTL DEF Spec
  <1> QED BY <1>2 DEF LeavingSparesOthers

-----------------------------------------------------------------------------
(* The holder is a client, with the credential to be taken over by, until  *)
(* a target answers "invalid_control_lease" itself: the gateway takes such *)
(* an answer for its own refusal.                                          *)

Held == TypeInv /\ HolderIsConnected

(* An echo is not forgotten.                                               *)
LEMMA EchoStays == TypeInv /\ [Next]_vars /\ ~echoed' => ~echoed
  <1> SUFFICES ASSUME TypeInv, [Next]_vars, ~echoed' PROVE ~echoed
    OBVIOUS
  <1>1. ASSUME NEW c \in Sessions, Answered(c) PROVE ~echoed
    BY <1>1 DEF Answered
  <1>2. ASSUME NEW c \in Sessions,
               \/ Connect(c) \/ Take(c) \/ Renew(c) \/ Route(c)
               \/ RouteRefused(c) \/ Disconnect(c) \/ Remove(c) \/ Send(c)
        PROVE  UNCHANGED echoed
    BY <1>2 DEF Connect, Take, TakeFree, TakeOwn, TakeOver, TakeFails, Renew,
                Route, RouteRefused, Disconnect, Remove, Send
  <1>3. CASE Broadcast \/ Tick \/ UNCHANGED vars
    BY <1>3 DEF Broadcast, Tick
  <1> HIDE DEF vars
  <1> QED BY <1>1, <1>2, <1>3 DEF Next

(* Steps after which the owner, if there is one, is the one there was and  *)
(* still holds the credential it held.                                     *)
LEMMA HolderKept ==
    ASSUME Held, ~echoed, TypeInv',
           Unexpired(grant', now') # NoGrant => Active # NoGrant,
           Active # NoGrant =>
               /\ grant' # NoGrant /\ SameCredential(grant', grant)
               /\ Active.owner \in Clients'
               /\ lease'[Active.owner] # NoGrant
               /\ SameCredential(lease'[Active.owner], lease[Active.owner])
    PROVE  HolderIsConnected'
  BY DEF Held, HolderIsConnected, Valid, Unexpired, SameCredential, Active

(* Steps that issue a grant to a client.                                   *)
LEMMA HolderNew ==
    ASSUME Held, TypeInv', NEW c \in Sessions, c \in Clients',
           grant' = Acquired(c, tokens, now), lease'[c] = grant'
    PROVE  HolderIsConnected'
  <1>1. grant' # NoGrant /\ grant'.owner = c
    BY AcquiredGrant DEF Held, TypeInv
  <1> QED BY <1>1
          DEF HolderIsConnected, Valid, Unexpired, SameCredential, Active

(* What the owner holds is valid, so whoever is refused is somebody else.  *)
LEMMA OwnerIsValid ==
    ASSUME Held, ~echoed, Active # NoGrant
    PROVE  /\ Active = grant /\ grant # NoGrant
           /\ Active.owner \in Clients /\ Active.owner \in Sessions
           /\ lease[Active.owner] # NoGrant
           /\ Valid(lease[Active.owner], grant, now)
           /\ SameCredential(grant, grant)
           /\ SameCredential(lease[Active.owner], lease[Active.owner])
  BY DEF Held, HolderIsConnected, Active, Unexpired, Valid, Clients,
         SameCredential

LEMMA HeldStep ==
    ASSUME Held, [Next]_vars PROVE Held'
  <1>0. TypeInv'
    BY TypeStep DEF Held
  <1> SUFFICES ASSUME ~echoed' PROVE HolderIsConnected'
    BY <1>0 DEF Held, HolderIsConnected
  <1> ~echoed
    BY EchoStays DEF Held
  <1>1. ASSUME NEW c \in Sessions, Connect(c) PROVE HolderIsConnected'
    <2>1. Clients' = Clients \union {c}
      BY <1>1 DEF Connect, Clients, Held, TypeInv, TypeOK
    <2>2. CASE Active = NoGrant
      BY <1>0, <1>1, <2>1, <2>2, HolderNew DEF Connect, Held, TypeInv, TypeOK
    <2>3. CASE Active # NoGrant
      BY <1>0, <1>1, <2>1, <2>3, HolderKept, OwnerIsValid DEF Connect
    <2> QED BY <2>2, <2>3
  <1>2. ASSUME NEW c \in Sessions, TakeFree(c) PROVE HolderIsConnected'
    BY <1>0, <1>2, HolderNew
       DEF TakeFree, Reading, Clients, Held, TypeInv, TypeOK
  <1>3. ASSUME NEW c \in Sessions, TakeOver(c) PROVE HolderIsConnected'
    BY <1>0, <1>3, HolderNew
       DEF TakeOver, Reading, Clients, Held, TypeInv, TypeOK
  <1>4. ASSUME NEW c \in Sessions, TakeFails(c) PROVE HolderIsConnected'
    BY <1>4, OwnerIsValid DEF TakeFails
  <1>5. ASSUME NEW c \in Sessions, Renew(c) PROVE HolderIsConnected'
    <2>1. CASE Valid(lease[c], grant, now)
      <3>1. /\ grant' = Renewed(grant, now) /\ lease' = [lease EXCEPT ![c] = grant']
            /\ UNCHANGED <<now, status>> /\ c \in Clients
        BY <1>5, <2>1 DEF Renew, Reading, Clients
      <3>2. grant # NoGrant /\ grant.owner = c /\ Active = grant
        BY <2>1, ValidIsOwner DEF Held
      <3>3. grant' # NoGrant /\ grant'.owner = c /\ lease'[c] = grant'
        BY <3>1, <3>2, RenewedGrant DEF Held, TypeInv, TypeOK, SameCredential
      <3> QED BY <3>1, <3>3
              DEF HolderIsConnected, Valid, Unexpired, SameCredential, Active,
                  Clients
    <2>2. CASE ~Valid(lease[c], grant, now)
      <3>1. /\ lease' = [lease EXCEPT ![c] = NoGrant]
            /\ UNCHANGED <<now, status, grant>>
        BY <1>5, <2>2 DEF Renew
      <3>2. Active # NoGrant => lease'[Active.owner] = lease[Active.owner]
        BY <2>2, <3>1, OwnerIsValid DEF Held, TypeInv, TypeOK
      <3> QED BY <1>0, <3>1, <3>2, HolderKept, OwnerIsValid DEF Active, Clients
    <2> QED BY <2>1, <2>2
  <1>6. ASSUME NEW c \in Sessions, RouteRefused(c) PROVE HolderIsConnected'
    <2>1. /\ lease' = [lease EXCEPT ![c] = NoGrant]
          /\ UNCHANGED <<now, status, grant>>
          /\ ~Valid(lease[c], grant, now)
      BY <1>6 DEF RouteRefused
    <2>2. Active # NoGrant => lease'[Active.owner] = lease[Active.owner]
      BY <2>1, OwnerIsValid DEF Held, TypeInv, TypeOK
    <2> QED BY <1>0, <2>1, <2>2, HolderKept, OwnerIsValid DEF Active, Clients
  <1>7. ASSUME NEW c \in Sessions, Remove(c) PROVE HolderIsConnected'
    <2>1. /\ lease' = [lease EXCEPT ![c] = NoGrant]
          /\ status' = [status EXCEPT ![c] = "gone"] /\ now' = now
          /\ grant' = IF Valid(lease[c], grant, now) THEN NoGrant ELSE grant
      BY <1>7 DEF Remove, Released
    <2>2. CASE Valid(lease[c], grant, now)
      BY <2>1, <2>2 DEF HolderIsConnected, Active, Unexpired
    <2>3. CASE ~Valid(lease[c], grant, now)
      <3>1. Active # NoGrant => /\ Active.owner # c
                                /\ lease'[Active.owner] = lease[Active.owner]
                                /\ Active.owner \in Clients'
        BY <2>1, <2>3, OwnerIsValid DEF Held, TypeInv, TypeOK, Clients
      <3> QED BY <1>0, <2>1, <2>3, <3>1, HolderKept, OwnerIsValid DEF Active
    <2> QED BY <2>2, <2>3
  <1>8. ASSUME UNCHANGED <<now, grant, lease>>, Clients' = Clients
        PROVE  HolderIsConnected'
    BY <1>8 DEF Held, HolderIsConnected, Active
  <1>9. ASSUME NEW c \in Sessions, Answered(c) PROVE HolderIsConnected'
    <2>1. UNCHANGED <<now, grant, lease, status>>
      BY <1>9 DEF Answered
    <2> QED BY <1>8, <2>1 DEF Clients
  <1>10. ASSUME NEW c \in Sessions, TakeOwn(c) \/ Route(c) \/ Send(c)
         PROVE  HolderIsConnected'
    <2>1. UNCHANGED <<now, grant, lease, status>>
      BY <1>10 DEF TakeOwn, Route, Send
    <2> QED BY <1>8, <2>1 DEF Clients
  <1>11. ASSUME NEW c \in Sessions, Disconnect(c) PROVE HolderIsConnected'
    <2>1. UNCHANGED <<now, grant, lease>> /\ Clients' = Clients
      BY <1>11 DEF Disconnect, Reading, Clients, Held, TypeInv, TypeOK
    <2> QED BY <1>8, <2>1
  <1>12. CASE Broadcast \/ UNCHANGED vars
    BY <1>8, <1>12 DEF Broadcast, Clients
  <1>13. CASE Tick
    <2>1. now' = now + 1 /\ now \in Nat /\ UNCHANGED <<grant, lease, status>>
      BY <1>13 DEF Tick, Held, TypeInv, TypeOK
    <2>2. Unexpired(grant', now') # NoGrant => Active # NoGrant
      BY <2>1 DEF Unexpired, Active, Held, TypeInv, TypeOK, Grant
    <2> QED BY <1>0, <2>1, <2>2, HolderKept, OwnerIsValid DEF Clients
  <1> HIDE DEF vars
  <1> QED BY <1>1, <1>2, <1>3, <1>4, <1>5, <1>6, <1>7, <1>9, <1>10, <1>11,
             <1>12, <1>13 DEF Next, Take

LEMMA HeldInvariant == Spec => []Held
  <1>1. Init => Held
    BY TypeInit DEF Init, Held, HolderIsConnected, Active, Unexpired
  <1>2. Held /\ [Next]_vars => Held'
    BY HeldStep
  <1> QED BY <1>1, <1>2, PTL DEF Spec

(* The unexpired lease always names a client that can be taken over: who   *)
(* leaves gives it up, who is taken over is told, and nobody's credential  *)
(* is dropped while it is the valid one, until a target echoes the code.   *)
THEOREM HolderStaysConnected == Spec => []HolderIsConnected
  <1>1. Held => HolderIsConnected
    BY DEF Held
  <1> QED BY <1>1, HeldInvariant, PTL

(* Until then, takeover never fails.                                       *)
THEOREM TakeoverSucceeds == Spec => TakeoverTransfers
  <1>1. Held /\ ~echoed => \A c \in Sessions : ~TakeFails(c)
    BY OwnerIsValid DEF TakeFails
  <1>2. Spec => [][~echoed => \A c \in Sessions : ~TakeFails(c)]_vars
    BY <1>1, HeldInvariant, PTL
  <1> QED BY <1>2 DEF TakeoverTransfers

-----------------------------------------------------------------------------
(* Who was told it controls the device holds the valid credential, and was *)
(* promised no more time than the grant has: a promise and a credential    *)
(* are given together, and are taken back together.                        *)

CredentialIsCurrent ==
    grant # NoGrant /\ lease[grant.owner] # NoGrant => lease[grant.owner] = grant

Promised(c) == told[c].role = "controller" /\ now < told[c].until

Belief(c) ==
    Promised(c) => /\ Valid(lease[c], grant, now)
                   /\ told[c].until <= grant.expires

Believed == \A c \in Clients \ overflown : Belief(c)

Honest == TypeInv /\ CredentialIsCurrent /\ Believed

(* What Offer does for a session that it does not begin to close.          *)
LEMMA OfferTold ==
    ASSUME TypeOK, NEW to \in SUBSET Sessions, NEW what, Offer(to, what),
           NEW c \in Sessions, c \notin overflown'
    PROVE  /\ c \notin overflown
           /\ c \in to /\ what[c] # Other => told'[c] = what[c]
           /\ c \notin to \/ what[c] = Other => told'[c] = told[c]
  <1>1. /\ overflown' = overflown \union
                          {d \in to : outbound[d] = OutboundCapacity}
        /\ told'[c] = IF /\ c \in to \ overflown /\ outbound[c] < OutboundCapacity
                         /\ what[c] # Other
                      THEN what[c] ELSE told[c]
    BY DEF Offer
  <1>2. c \notin overflown /\ (c \in to => outbound[c] # OutboundCapacity)
    BY <1>1
  <1>3. outbound[c] \in 0 .. OutboundCapacity
    BY DEF TypeOK
  <1>4. c \in to => outbound[c] < OutboundCapacity
    BY <1>2, <1>3
  <1> QED BY <1>1, <1>2, <1>4

LEMMA TellTold ==
    ASSUME TypeOK, NEW d \in Sessions, NEW what, Tell(d, what),
           NEW c \in Sessions, c \notin overflown'
    PROVE  /\ c \notin overflown
           /\ c = d /\ what # Other => told'[c] = what
           /\ c # d \/ what = Other => told'[c] = told[c]
  <1>1. Offer({d}, [e \in {d} |-> what])
    BY DEF Tell
  <1> QED BY <1>1, OfferTold

(* Nobody is promised anything by being told it may only read.             *)
LEMMA ReadOnlyPromise == ReadOnly.role # "controller" /\ ReadOnly # Other
  BY DEF ReadOnly, Other

LEMMA ControllerPromise ==
    ASSUME NEW g
    PROVE  /\ Controller(g) # Other /\ Controller(g).role = "controller"
           /\ Controller(g).until = g.expires
  BY DEF Controller, Other

(* Only the owner was promised anything.                                   *)
LEMMA OthersHopeNothing ==
    ASSUME Honest, NEW c \in Clients, c \notin overflown,
           Active = NoGrant \/ Active.owner # c
    PROVE  ~Promised(c)
  <1>1. c \in Sessions
    BY DEF Clients
  <1> QED BY <1>1, ValidIsOwner DEF Honest, Believed, Belief, Valid, Active

(* A new or renewed grant of d, which is told of it: the others were       *)
(* promised nothing, or are told so.                                       *)
LEMMA GrantedHonest ==
    ASSUME Honest, TypeInv', NEW d \in Sessions, now' = now,
           grant' # NoGrant, grant'.owner = d, grant'.expires > now,
           lease'[d] = grant',
           d \notin overflown' => told'[d] = Controller(grant'),
           \A c \in Clients' \ overflown' :
               c # d => \/ told'[c] = ReadOnly
                        \/ /\ c \in Clients /\ c \notin overflown
                           /\ told'[c] = told[c]
                           /\ Active = NoGrant \/ Active.owner # c
    PROVE  Honest'
  <1>1. CredentialIsCurrent'
    BY DEF CredentialIsCurrent
  <1>2. ASSUME NEW c \in Clients', c \notin overflown' PROVE Belief(c)'
    <2>1. CASE c = d
      <3>1. grant' \in Grant
        BY DEF TypeInv, TypeOK
      <3>2. Valid(lease'[d], grant', now')
        BY DEF Valid, Unexpired, SameCredential
      <3> QED BY <1>2, <2>1, <3>1, <3>2, ControllerPromise DEF Belief, Grant
    <2>2. CASE c # d
      <3>1. CASE told'[c] = ReadOnly
        BY <3>1, ReadOnlyPromise DEF Belief, Promised
      <3>2. CASE told'[c] # ReadOnly
        <4>1. /\ c \in Clients /\ c \notin overflown /\ told'[c] = told[c]
              /\ Active = NoGrant \/ Active.owner # c
          BY <1>2, <2>2, <3>2
        <4>2. ~Promised(c)
          BY <4>1, OthersHopeNothing
        <4> QED BY <4>1, <4>2 DEF Belief, Promised
      <3> QED BY <3>1, <3>2
    <2> QED BY <2>1, <2>2
  <1> QED BY <1>1, <1>2 DEF Honest, Believed

(* Steps that leave the grant alone: every session still has the           *)
(* credential and the promise it had, or is told that it may only read.    *)
LEMMA KeptHonest ==
    ASSUME Honest, TypeInv', UNCHANGED grant, now' \in Nat, now <= now',
           \A c \in Sessions : lease'[c] \in {lease[c], NoGrant},
           \A c \in Clients' \ overflown' :
               \/ told'[c] = ReadOnly
               \/ /\ c \in Clients /\ c \notin overflown
                  /\ told'[c] = told[c] /\ lease'[c] = lease[c]
    PROVE  Honest'
  <1>1. CredentialIsCurrent'
    BY DEF CredentialIsCurrent, Honest, TypeInv, TypeOK, Grant
  <1>2. ASSUME NEW c \in Clients', c \notin overflown', told'[c] # ReadOnly
        PROVE  Belief(c)'
    <2>1. /\ c \in Clients /\ c \notin overflown /\ Belief(c)
          /\ told'[c] = told[c] /\ lease'[c] = lease[c]
      BY <1>2 DEF Honest, Believed
    <2>2. now \in Nat /\ told[c].until \in Nat
          /\ (grant # NoGrant => grant.expires \in Nat)
      BY <2>1 DEF Honest, TypeInv, TypeOK, Clients, Grant
    <2> QED BY <2>1, <2>2 DEF Belief, Promised, Valid, Unexpired
  <1>3. ASSUME NEW c \in Clients', told'[c] = ReadOnly PROVE Belief(c)'
    BY <1>3, ReadOnlyPromise DEF Belief, Promised
  <1> QED BY <1>1, <1>2, <1>3 DEF Honest, Believed

LEMMA AcquiredHonest ==
    ASSUME Honest, TypeInv', NEW c \in Sessions,
           Connect(c) \/ TakeFree(c), Active = NoGrant
    PROVE  Honest'
  <1>1. /\ grant' = Acquired(c, tokens, now) /\ lease' = [lease EXCEPT ![c] = grant']
        /\ Tell(c, Controller(grant')) /\ now' = now
    BY DEF Connect, TakeFree
  <1>2. grant' # NoGrant /\ grant'.owner = c /\ grant'.expires > now
    BY <1>1, AcquiredGrant DEF Honest, TypeInv, TypeOK, Acquired
  <1>3. lease'[c] = grant'
    BY <1>1 DEF Honest, TypeInv, TypeOK
  <1>4. \A d \in Clients' : d # c => d \in Clients /\ d \in Sessions
    BY DEF Connect, TakeFree, Clients, Honest, TypeInv, TypeOK
  <1>5. \A d \in Sessions \ overflown' :
          /\ d \notin overflown
          /\ d = c => told'[d] = Controller(grant')
          /\ d # c => told'[d] = told[d]
    BY <1>1, TellTold, ControllerPromise DEF Honest, TypeInv
  <1> QED BY <1>1, <1>2, <1>3, <1>4, <1>5, GrantedHonest

LEMMA TakeOverHonest ==
    ASSUME Honest, TypeInv', NEW c \in Sessions, TakeOver(c)
    PROVE  Honest'
  <1> DEFINE previous == Active.owner
             words == [d \in {c, previous} |->
                         IF d = c THEN Controller(grant') ELSE ReadOnly]
  <1>1. /\ grant' = Acquired(c, tokens, now) /\ now' = now
        /\ lease' = [lease EXCEPT ![previous] = NoGrant, ![c] = grant']
        /\ Offer({c, previous}, words) /\ UNCHANGED status
        /\ previous \in Clients
    BY DEF TakeOver
  <1>2. grant' # NoGrant /\ grant'.owner = c /\ grant'.expires > now
    BY <1>1, AcquiredGrant DEF Honest, TypeInv, TypeOK, Acquired
  <1>3. lease'[c] = grant'
    BY <1>1 DEF Honest, TypeInv, TypeOK
  <1>4. previous \in Sessions /\ Clients' = Clients /\ Clients \subseteq Sessions
    BY <1>1 DEF Clients
  <1>5. /\ words[c] = Controller(grant') /\ words[c] # Other
        /\ previous # c => words[previous] = ReadOnly /\ words[previous] # Other
    BY ControllerPromise, ReadOnlyPromise
  <1>7. {c, previous} \in SUBSET Sessions
    BY <1>4
  <1> HIDE DEF words, previous
  <1>6. ASSUME NEW d \in Sessions, d \notin overflown'
        PROVE  /\ d \notin overflown
               /\ d = c => told'[d] = Controller(grant')
               /\ d # c /\ d = previous => told'[d] = ReadOnly
               /\ d # c /\ d # previous => told'[d] = told[d]
    <2>1. TypeOK /\ Offer({c, previous}, words)
      BY <1>1 DEF Honest, TypeInv
    <2>2. /\ d \notin overflown
          /\ d \in {c, previous} /\ words[d] # Other => told'[d] = words[d]
          /\ d \notin {c, previous} \/ words[d] = Other => told'[d] = told[d]
      BY <1>6, <1>7, <2>1, OfferTold
    <2> QED BY <1>5, <2>2
  <1> QED BY <1>1, <1>2, <1>3, <1>4, <1>6, GrantedHonest DEF previous

LEMMA RenewHonest ==
    ASSUME Honest, TypeInv', NEW c \in Sessions, Renew(c)
    PROVE  Honest'
  <1>1. now' = now /\ UNCHANGED status /\ Clients' = Clients
        /\ Clients \subseteq Sessions
    BY DEF Renew, Clients
  <1>2. CASE Valid(lease[c], grant, now)
    <2>1. /\ grant' = Renewed(grant, now) /\ lease' = [lease EXCEPT ![c] = grant']
          /\ Tell(c, Controller(grant'))
      BY <1>2 DEF Renew
    <2>2. grant # NoGrant /\ grant.owner = c /\ Active = grant
      BY <1>2, ValidIsOwner DEF Honest
    <2>3. grant' # NoGrant /\ grant'.owner = c /\ grant'.expires > now
      BY <2>1, <2>2, RenewedGrant
         DEF Honest, TypeInv, TypeOK, SameCredential, Renewed, Grant
    <2>4. lease'[c] = grant'
      BY <2>1 DEF Honest, TypeInv, TypeOK
    <2>5. \A d \in Sessions \ overflown' :
            /\ d \notin overflown
            /\ d = c => told'[d] = Controller(grant')
            /\ d # c => told'[d] = told[d]
      BY <2>1, TellTold, ControllerPromise DEF Honest, TypeInv
    <2> QED BY <1>1, <2>2, <2>3, <2>4, <2>5, GrantedHonest
  <1>3. CASE ~Valid(lease[c], grant, now)
    <2>1. /\ lease' = [lease EXCEPT ![c] = NoGrant]
          /\ Tell(c, ReadOnly) /\ UNCHANGED grant
      BY <1>3 DEF Renew
    <2>2. \A d \in Sessions \ overflown' :
            /\ d \notin overflown
            /\ d = c => told'[d] = ReadOnly
            /\ d # c => told'[d] = told[d] /\ lease'[d] = lease[d]
      BY <2>1, TellTold, ReadOnlyPromise DEF Honest, TypeInv, TypeOK
    <2>3. \A d \in Sessions : lease'[d] \in {lease[d], NoGrant}
      BY <2>1 DEF Honest, TypeInv, TypeOK
    <2> QED BY <1>1, <2>1, <2>2, <2>3, KeptHonest DEF Honest, TypeInv, TypeOK
  <1> QED BY <1>2, <1>3

LEMMA TakeOwnHonest ==
    ASSUME Honest, TypeInv', NEW c \in Sessions, TakeOwn(c)
    PROVE  Honest'
  <1>1. /\ Active # NoGrant /\ Active.owner = c /\ lease[c] # NoGrant
        /\ Tell(c, Controller(lease[c]))
        /\ UNCHANGED <<now, grant, lease, status>>
    BY DEF TakeOwn
  <1>2. Active = grant /\ grant # NoGrant /\ now < grant.expires
    BY <1>1 DEF Active, Unexpired
  <1>3. lease[c] = grant
    BY <1>1, <1>2 DEF Honest, CredentialIsCurrent
  <1>4. Clients' = Clients /\ Clients \subseteq Sessions
    BY <1>1 DEF Clients
  <1>5. \A d \in Sessions \ overflown' :
          /\ d \notin overflown
          /\ d = c => told'[d] = Controller(grant)
          /\ d # c => told'[d] = told[d]
    BY <1>1, <1>3, TellTold, ControllerPromise DEF Honest, TypeInv
  <1> QED BY <1>1, <1>2, <1>3, <1>4, <1>5, GrantedHonest

(* A session that is told it may only read, or told nothing of its role,   *)
(* while the grant stays as it is.                                         *)
LEMMA ToldHonest ==
    ASSUME Honest, TypeInv', NEW c \in Sessions, NEW what,
           what \in {ReadOnly, Other}, Tell(c, what),
           UNCHANGED <<now, grant, status>>,
           \/ what = ReadOnly /\ lease' = [lease EXCEPT ![c] = NoGrant]
           \/ UNCHANGED lease
    PROVE  Honest'
  <1>1. Clients' = Clients /\ Clients \subseteq Sessions
    BY DEF Clients
  <1>2. \A d \in Sessions \ overflown' :
          /\ d \notin overflown
          /\ d = c /\ what = ReadOnly => told'[d] = ReadOnly
          /\ d # c \/ what = Other => told'[d] = told[d]
    BY TellTold, ReadOnlyPromise DEF Honest, TypeInv
  <1>3. \A d \in Sessions : d # c \/ what = Other => lease'[d] = lease[d]
    BY ReadOnlyPromise DEF Honest, TypeInv, TypeOK
  <1>4. \A d \in Sessions : lease'[d] \in {lease[d], NoGrant}
    BY DEF Honest, TypeInv, TypeOK
  <1>5. now' \in Nat /\ now <= now'
    BY DEF Honest, TypeInv, TypeOK
  <1> QED BY <1>1, <1>2, <1>3, <1>4, <1>5, KeptHonest

(* Steps that tell nobody anything and change no credential.               *)
LEMMA QuietHonest ==
    ASSUME Honest, TypeInv', UNCHANGED <<grant, lease>>,
           now' \in Nat, now <= now', Clients' \subseteq Clients,
           \A c \in Sessions \ overflown' :
               c \notin overflown /\ told'[c] = told[c]
    PROVE  Honest'
  <1>1. Clients' \subseteq Sessions
    BY DEF Clients
  <1> QED BY <1>1, KeptHonest

LEMMA ConnectHonest ==
    ASSUME Honest, TypeInv', NEW c \in Sessions, Connect(c)
    PROVE  Honest'
  <1>1. CASE Active = NoGrant
    BY <1>1, AcquiredHonest
  <1>2. CASE Active # NoGrant
    <2>1. UNCHANGED <<now, grant, lease>> /\ Tell(c, ReadOnly)
      BY <1>2 DEF Connect, leaseVars
    <2>2. \A d \in Sessions \ overflown' :
            /\ d \notin overflown
            /\ d = c => told'[d] = ReadOnly
            /\ d # c => told'[d] = told[d]
      BY <2>1, TellTold, ReadOnlyPromise DEF Honest, TypeInv
    <2>3. \A d \in Clients' : d # c => d \in Clients /\ d \in Sessions
      BY DEF Connect, Clients, Honest, TypeInv, TypeOK
    <2>4. now' \in Nat /\ now <= now'
      BY <2>1 DEF Honest, TypeInv, TypeOK
    <2>5. Clients' \subseteq Sessions
      BY DEF Clients
    <2> QED BY <2>1, <2>2, <2>3, <2>4, <2>5, KeptHonest
  <1> QED BY <1>1, <1>2

LEMMA RemoveHonest ==
    ASSUME Honest, TypeInv', NEW c \in Sessions, Remove(c)
    PROVE  Honest'
  <1>1. /\ grant' = IF Valid(lease[c], grant, now) THEN NoGrant ELSE grant
        /\ lease' = [lease EXCEPT ![c] = NoGrant]
        /\ now' = now /\ now \in Nat /\ UNCHANGED <<overflown, told>>
    BY DEF Remove, Released, outVars, Honest, TypeInv, TypeOK
  <1>2. Clients' = Clients \ {c} /\ Clients \subseteq Sessions
    BY DEF Remove, Clients, Honest, TypeInv, TypeOK
  <1>3. CASE Valid(lease[c], grant, now)
    <2>1. Active # NoGrant /\ Active.owner = c
      BY <1>3, ValidIsOwner DEF Honest
    <2>2. ASSUME NEW d \in Clients', d \notin overflown' PROVE Belief(d)'
      <3>1. d \in Clients /\ d # c /\ d \notin overflown
        BY <1>1, <1>2, <2>2
      <3>2. ~Promised(d)
        BY <2>1, <3>1, OthersHopeNothing
      <3> QED BY <1>1, <3>2 DEF Belief, Promised
    <2>3. CredentialIsCurrent'
      BY <1>1, <1>3 DEF CredentialIsCurrent
    <2> QED BY <2>2, <2>3 DEF Honest, Believed
  <1>4. CASE ~Valid(lease[c], grant, now)
    <2>1. \A d \in Sessions : /\ lease'[d] \in {lease[d], NoGrant}
                              /\ d # c => lease'[d] = lease[d]
      BY <1>1 DEF Honest, TypeInv, TypeOK
    <2>2. now <= now'
      BY <1>1
    <2> QED BY <1>1, <1>2, <1>4, <2>1, <2>2, KeptHonest
  <1> QED BY <1>3, <1>4

LEMMA HonestStep ==
    ASSUME Honest, [Next]_vars PROVE Honest'
  <1>0. TypeInv' /\ TypeOK /\ now \in Nat /\ now <= now
    BY TypeStep DEF Honest, TypeInv, TypeOK
  <1>1. ASSUME NEW c \in Sessions, Connect(c) PROVE Honest'
    BY <1>0, <1>1, ConnectHonest
  <1>2. ASSUME NEW c \in Sessions, Take(c) PROVE Honest'
    <2>1. CASE TakeFree(c)
      BY <1>0, <2>1, AcquiredHonest DEF TakeFree
    <2>2. CASE TakeOwn(c)
      BY <1>0, <2>2, TakeOwnHonest
    <2>3. CASE TakeOver(c)
      BY <1>0, <2>3, TakeOverHonest
    <2>4. CASE TakeFails(c)
      <3>1. UNCHANGED <<now, grant, status>>
        BY <2>4 DEF TakeFails
      <3>2. \/ Tell(c, ReadOnly) /\ lease' = [lease EXCEPT ![c] = NoGrant]
            \/ Tell(c, Other) /\ UNCHANGED lease
        BY <2>4 DEF TakeFails
      <3>3. CASE Tell(c, ReadOnly) /\ lease' = [lease EXCEPT ![c] = NoGrant]
        BY <1>0, <3>1, <3>3, ToldHonest
      <3>4. CASE Tell(c, Other) /\ UNCHANGED lease
        BY <1>0, <3>1, <3>4, ToldHonest
      <3> QED BY <3>2, <3>3, <3>4
    <2> QED BY <1>2, <2>1, <2>2, <2>3, <2>4 DEF Take
  <1>3. ASSUME NEW c \in Sessions, Renew(c) PROVE Honest'
    BY <1>0, <1>3, RenewHonest
  <1>4. ASSUME NEW c \in Sessions, RouteRefused(c) PROVE Honest'
    <2>1. /\ UNCHANGED <<now, grant, status>> /\ Tell(c, ReadOnly)
          /\ lease' = [lease EXCEPT ![c] = NoGrant]
      BY <1>4 DEF RouteRefused
    <2> QED BY <1>0, <2>1, ToldHonest
  <1>5. ASSUME UNCHANGED <<grant, lease, overflown, told>>, now' \in Nat,
               now <= now', Clients' \subseteq Clients
        PROVE  Honest'
    BY <1>0, <1>5, QuietHonest
  <1>6. ASSUME NEW c \in Sessions, Answered(c) PROVE Honest'
    <2>1. UNCHANGED <<now, grant, status>>
      BY <1>6 DEF Answered
    <2>2. \/ UNCHANGED <<lease, overflown, told>>
          \/ Tell(c, ReadOnly) /\ lease' = [lease EXCEPT ![c] = NoGrant]
          \/ Tell(c, Other) /\ UNCHANGED lease
      BY <1>6 DEF Answered, outVars
    <2>3. CASE UNCHANGED <<lease, overflown, told>>
      BY <1>0, <1>5, <2>1, <2>3 DEF Clients
    <2>4. CASE Tell(c, ReadOnly) /\ lease' = [lease EXCEPT ![c] = NoGrant]
      BY <1>0, <2>1, <2>4, ToldHonest
    <2>5. CASE Tell(c, Other) /\ UNCHANGED lease
      BY <1>0, <2>1, <2>5, ToldHonest
    <2> QED BY <2>2, <2>3, <2>4, <2>5
  <1>7. ASSUME NEW c \in Sessions, Route(c) \/ Disconnect(c) \/ Send(c)
        PROVE  Honest'
    <2>1. UNCHANGED <<now, grant, lease, overflown, told>>
      BY <1>7 DEF Route, Disconnect, Send, leaseVars, outVars
    <2>2. Clients' \subseteq Clients
      BY <1>7 DEF Route, Disconnect, Send, Reading, Clients, Honest, TypeInv,
                  TypeOK
    <2> QED BY <1>0, <1>5, <2>1, <2>2
  <1>8. ASSUME NEW c \in Sessions, Remove(c) PROVE Honest'
    BY <1>0, <1>8, RemoveHonest
  <1>9. CASE Broadcast
    <2>1. /\ Offer(Clients, [c \in Clients |-> Other])
          /\ UNCHANGED <<now, grant, lease, status>>
      BY <1>9 DEF Broadcast, leaseVars
    <2>2. Clients \in SUBSET Sessions /\ Clients' \subseteq Clients
      BY <2>1 DEF Clients
    <2>3. \A c \in Sessions \ overflown' :
              c \notin overflown /\ told'[c] = told[c]
      BY <1>0, <2>1, <2>2, OfferTold
    <2> QED BY <1>0, <2>1, <2>2, <2>3, QuietHonest
  <1>10. CASE Tick
    <2>1. /\ now' = now + 1
          /\ UNCHANGED <<grant, lease, overflown, told, status>>
      BY <1>10 DEF Tick, leaseVars, outVars
    <2>2. now' \in Nat /\ now <= now' /\ Clients' \subseteq Clients
      BY <1>0, <2>1 DEF Clients
    <2> QED BY <1>5, <2>1, <2>2
  <1>11. CASE UNCHANGED vars
    <2>1. UNCHANGED <<now, grant, lease, overflown, told, status>>
      BY <1>11 DEF vars, leaseVars, outVars
    <2> QED BY <1>0, <1>5, <2>1 DEF Clients
  <1> HIDE DEF vars
  <1> QED BY <1>1, <1>2, <1>3, <1>4, <1>6, <1>7, <1>8, <1>9, <1>10, <1>11
          DEF Next

(* A page that was told it controls the device, and whose time has not run *)
(* out, does hold the valid credential, whoever took over, renewed, left   *)
(* or was refused in the meantime, unless its own queue overflowed.        *)
THEOREM BelieverIsHolder == Spec => []BelieverHolds
  <1>1. Init => Honest
    BY TypeInit DEF Init, Honest, CredentialIsCurrent, Believed, Clients
  <1>2. Honest /\ [Next]_vars => Honest'
    BY HonestStep
  <1>3. Honest => BelieverHolds
    BY DEF Honest, Believed, Belief, Promised, BelieverHolds
  <1> QED BY <1>1, <1>2, <1>3, PTL DEF Spec
=============================================================================
