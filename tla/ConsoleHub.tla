----------------------------- MODULE ConsoleHub ------------------------------
(***************************************************************************)
(* The console gateway's control hub (_ConsoleHub, OutboundQueue and the   *)
(* message handler of lefly_simulator/server.py) over one ControlLease.    *)
(*                                                                         *)
(* Everything runs on one event loop, and a session's messages are handled *)
(* one after the other.  The only handler that really suspends is that of  *)
(* console.command, which waits for the target's answer: until then the    *)
(* session is busy, while others may take over, the lease may expire and   *)
(* the socket may be lost.                                                 *)
(***************************************************************************)
EXTENDS ControlLease, FiniteSets

CONSTANTS
    OutboundCapacity,  \* messages an OutboundQueue holds
    DeviceErrors,      \* codes of device.error a remote target answers with
    MaxTime,           \* bound: ticks of the clock
    MaxGrants          \* bound: grants issued

ASSUME HubAssumption ==
    /\ OutboundCapacity \in Nat \ {0}
    /\ DeviceErrors \subseteq {"invalid_control_lease", "motion_failed"}
    /\ MaxTime \in Nat
    /\ MaxGrants \in Nat

VARIABLES
    now,        \* the lease's monotonic clock
    grant,      \* ControlLease._grant
    tokens,     \* tokens issued so far
    status,     \* of a session: new, open, ending (socket lost), gone
    lease,      \* _ConsoleClient.lease
    busy,       \* sessions whose handler awaits router.route
    outbound,   \* length of each OutboundQueue
    overflown,  \* sessions whose OutboundQueue has begun to close the socket
    told,       \* what the session was last told of its role
    echoed      \* history: a target has answered invalid_control_lease

leaseVars == <<grant, tokens, lease>>
outVars == <<outbound, overflown, told>>
vars == <<now, leaseVars, status, busy, outVars, echoed>>

ReadOnly == [role |-> "readonly", until |-> 0]
Controller(g) == [role |-> "controller", until |-> g.expires]
Other == [role |-> "unchanged", until |-> 0]

Active == Unexpired(grant, now)

(* hub.clients                                                             *)
Clients == {c \in Sessions : status[c] \in {"open", "ending"}}

Init ==
    /\ now = 0 /\ grant = NoGrant /\ tokens = 0
    /\ status = [c \in Sessions |-> "new"]
    /\ lease = [c \in Sessions |-> NoGrant]
    /\ busy = {}
    /\ outbound = [c \in Sessions |-> 0]
    /\ overflown = {}
    /\ told = [c \in Sessions |-> ReadOnly]
    /\ echoed = FALSE

-----------------------------------------------------------------------------
(* Mutant: the queue is not bounded.                                       *)
OfferUnbounded(to, what) ==
    /\ outbound' = [c \in Sessions |->
                      IF c \in to THEN outbound[c] + 1 ELSE outbound[c]]
    /\ told' = [c \in Sessions |->
                  IF c \in to /\ what[c] # Other THEN what[c] ELSE told[c]]
    /\ UNCHANGED overflown

(* OutboundQueue.offer, for the sessions in to: what[c] is queued for c    *)
(* unless its queue is full, which closes its socket for good.             *)
Offer(to, what) ==
    LET takes(c) == c \in to \ overflown /\ outbound[c] < OutboundCapacity IN
    /\ outbound' = [c \in Sessions |->
                      IF takes(c) THEN outbound[c] + 1 ELSE outbound[c]]
    /\ overflown' = overflown \union
                      {c \in to : outbound[c] = OutboundCapacity}
    /\ told' = [c \in Sessions |->
                  IF takes(c) /\ what[c] # Other THEN what[c] ELSE told[c]]

Tell(c, what) == Offer({c}, [d \in {c} |-> what])

(* _send: the sender task writes one message to the socket.                *)
Send(c) ==
    /\ c \in Clients /\ outbound[c] > 0
    /\ outbound' = [outbound EXCEPT ![c] = @ - 1]
    /\ UNCHANGED <<now, echoed, leaseVars, status, busy, overflown, told>>

(* A router event or a console.state goes to every client.                 *)
Broadcast ==
    /\ Clients # {}
    /\ Offer(Clients, [c \in Clients |-> Other])
    /\ UNCHANGED <<now, echoed, leaseVars, status, busy>>

-----------------------------------------------------------------------------
(* Mutant: the new client is not given the credential of its grant.        *)
ConnectForgetting(c) ==
    /\ status[c] = "new"
    /\ status' = [status EXCEPT ![c] = "open"]
    /\ IF Active = NoGrant
         THEN /\ tokens < MaxGrants
              /\ tokens' = tokens + 1
              /\ grant' = Acquired(c, tokens, now)
              /\ Tell(c, Controller(grant'))
         ELSE Tell(c, ReadOnly) /\ UNCHANGED <<grant, tokens>>
    /\ UNCHANGED <<now, echoed, lease, busy>>

(* _console_socket and hub.add: whoever connects acquires a free lease.    *)
Connect(c) ==
    /\ status[c] = "new"
    /\ status' = [status EXCEPT ![c] = "open"]
    /\ IF Active = NoGrant
         THEN /\ tokens < MaxGrants
              /\ tokens' = tokens + 1
              /\ grant' = Acquired(c, tokens, now)
              /\ lease' = [lease EXCEPT ![c] = grant']
              /\ Tell(c, Controller(grant'))
         ELSE /\ Tell(c, ReadOnly)
              /\ UNCHANGED leaseVars
    /\ UNCHANGED <<now, echoed, busy>>

(* The reading loop takes c's next message.                                *)
Reading(c) == status[c] = "open" /\ c \notin busy

(* take_control with nobody to take from.                                  *)
TakeFree(c) ==
    /\ Reading(c) /\ Active = NoGrant
    /\ tokens < MaxGrants
    /\ tokens' = tokens + 1
    /\ grant' = Acquired(c, tokens, now)
    /\ lease' = [lease EXCEPT ![c] = grant']
    /\ Tell(c, Controller(grant'))
    /\ UNCHANGED <<now, echoed, status, busy>>

(* take_control by the owner itself.                                       *)
TakeOwn(c) ==
    /\ Reading(c) /\ Active # NoGrant
    /\ Active.owner = c /\ lease[c] # NoGrant
    /\ Tell(c, Controller(lease[c]))
    /\ UNCHANGED <<now, echoed, leaseVars, status, busy>>

(* Mutant: the session that is taken over is not told.                     *)
TakeOverSilently(c) ==
    /\ Reading(c) /\ Active # NoGrant
    /\ Active.owner # c
    /\ LET previous == Active.owner IN
         /\ previous \in Clients /\ lease[previous] # NoGrant
         /\ Valid(lease[previous], grant, now)
         /\ tokens < MaxGrants
         /\ tokens' = tokens + 1
         /\ grant' = Acquired(c, tokens, now)
         /\ lease' = [lease EXCEPT ![previous] = NoGrant, ![c] = grant']
         /\ Tell(c, Controller(grant'))
    /\ UNCHANGED <<now, echoed, status, busy>>

(* take_control from another session: its lease is released, it is told,   *)
(* and the lease is granted anew.                                          *)
TakeOver(c) ==
    /\ Reading(c) /\ Active # NoGrant
    /\ ~(Active.owner = c /\ lease[c] # NoGrant)
    /\ LET previous == Active.owner IN
         /\ previous \in Clients /\ lease[previous] # NoGrant
         /\ Valid(lease[previous], grant, now)
         /\ tokens < MaxGrants
         /\ tokens' = tokens + 1
         /\ grant' = Acquired(c, tokens, now)
         /\ lease' = [lease EXCEPT ![previous] = NoGrant, ![c] = grant']
         /\ Offer({c, previous},
                  [d \in {c, previous} |->
                     IF d = c THEN Controller(grant') ELSE ReadOnly])
    /\ UNCHANGED <<now, echoed, status, busy>>

(* take_control when the owner has no credential to be released with, or   *)
(* one that is refused: an error; the second kind costs c its own lease.   *)
TakeFails(c) ==
    /\ Reading(c) /\ Active # NoGrant
    /\ ~(Active.owner = c /\ lease[c] # NoGrant)
    /\ LET previous == Active.owner
           found == previous \in Clients /\ lease[previous] # NoGrant
       IN /\ ~(found /\ Valid(lease[previous], grant, now))
          /\ lease' = IF found THEN [lease EXCEPT ![c] = NoGrant] ELSE lease
          /\ Tell(c, IF found THEN ReadOnly ELSE Other)
    /\ UNCHANGED <<now, echoed, grant, tokens, status, busy>>

Renew(c) ==
    /\ Reading(c)
    /\ IF Valid(lease[c], grant, now)
         THEN /\ grant' = Renewed(grant, now)
              /\ lease' = [lease EXCEPT ![c] = grant']
              /\ Tell(c, Controller(grant'))
         ELSE /\ lease' = [lease EXCEPT ![c] = NoGrant]
              /\ Tell(c, ReadOnly)
              /\ UNCHANGED grant
    /\ UNCHANGED <<now, echoed, tokens, status, busy>>

(* console.command: validated when it arrives, and never again.            *)
Route(c) ==
    /\ Reading(c)
    /\ Valid(lease[c], grant, now)
    /\ busy' = busy \union {c}
    /\ UNCHANGED <<now, echoed, leaseVars, status, outVars>>

(* read_only or invalid_control_lease: a page reacts to both alike.        *)
RouteRefused(c) ==
    /\ Reading(c)
    /\ ~Valid(lease[c], grant, now)
    /\ lease' = [lease EXCEPT ![c] = NoGrant]
    /\ Tell(c, ReadOnly)
    /\ UNCHANGED <<now, echoed, grant, tokens, status, busy>>

(* The target's answer: nothing to say, or an error sent to the page.  The *)
(* hub takes a target's own invalid_control_lease for the router's.        *)
Answered(c) ==
    /\ c \in busy
    /\ busy' = busy \ {c}
    /\ \/ UNCHANGED <<lease, outVars, echoed>>
       \/ \E code \in DeviceErrors :
            IF code = "invalid_control_lease"
              THEN /\ lease' = [lease EXCEPT ![c] = NoGrant]
                   /\ Tell(c, ReadOnly)
                   /\ echoed' = TRUE
              ELSE Tell(c, Other) /\ UNCHANGED <<lease, echoed>>
    /\ UNCHANGED <<now, grant, tokens, status>>

(* Mutant: a lost client stays until its queue has been sent.              *)
DisconnectDrained(c) ==
    /\ Reading(c) /\ outbound[c] = 0
    /\ status' = [status EXCEPT ![c] = "ending"]
    /\ UNCHANGED <<now, echoed, leaseVars, busy, outVars>>

(* The socket is lost, or closed because its queue overflowed: the reading *)
(* loop ends, and hub.remove starts _remove_core as a task.                *)
Disconnect(c) ==
    /\ Reading(c)
    /\ status' = [status EXCEPT ![c] = "ending"]
    /\ UNCHANGED <<now, echoed, leaseVars, busy, outVars>>

(* _remove_core                                                            *)
Remove(c) ==
    /\ status[c] = "ending"
    /\ status' = [status EXCEPT ![c] = "gone"]
    /\ grant' = Released(lease[c], grant, now)
    /\ lease' = [lease EXCEPT ![c] = NoGrant]
    /\ UNCHANGED <<now, echoed, tokens, busy, outVars>>

Tick ==
    /\ now < MaxTime
    /\ now' = now + 1
    /\ UNCHANGED <<leaseVars, status, busy, outVars, echoed>>

Take(c) == TakeFree(c) \/ TakeOwn(c) \/ TakeOver(c) \/ TakeFails(c)

Next ==
    \/ \E c \in Sessions :
         \/ Connect(c) \/ Take(c) \/ Renew(c) \/ Route(c) \/ RouteRefused(c)
         \/ Answered(c) \/ Disconnect(c) \/ Remove(c) \/ Send(c)
    \/ Broadcast
    \/ Tick

Spec == Init /\ [][Next]_vars

(* Targets answer or time out; the event loop runs _remove_core.  A socket *)
(* that is being closed ends its reading loop the next time it reads, so   *)
(* being able to read again and again is enough: strong fairness.          *)
FairSpec ==
    /\ Spec
    /\ \A c \in Sessions :
         /\ WF_vars(Answered(c)) /\ WF_vars(Remove(c))
         /\ SF_vars(c \in overflown /\ Disconnect(c))

-----------------------------------------------------------------------------
TypeOK ==
    /\ now \in Nat /\ tokens \in Nat
    /\ grant \in Grant \union {NoGrant}
    /\ status \in [Sessions -> {"new", "open", "ending", "gone"}]
    /\ lease \in [Sessions -> Grant \union {NoGrant}]
    /\ busy \subseteq Sessions
    /\ outbound \in [Sessions -> 0 .. OutboundCapacity]
    /\ overflown \subseteq Sessions
    /\ told \in [Sessions -> [role : {"readonly", "controller"}, until : Nat]]
    /\ echoed \in BOOLEAN

(* The session the lease names is a client of the hub and holds the        *)
(* credential for it: nobody who has left, or been taken over, blocks it.  *)
(* So long as no target has answered invalid_control_lease, that is, which *)
(* makes the hub drop the holder's credential while the router keeps it.   *)
HolderIsConnected ==
    ~echoed /\ Active # NoGrant =>
        /\ Active.owner \in Clients
        /\ Valid(lease[Active.owner], grant, now)

(* Two sessions never hold credentials the router would accept.            *)
OneController ==
    \A c, d \in Sessions :
        Valid(lease[c], grant, now) /\ Valid(lease[d], grant, now) => c = d

(* A page that was told it controls the device, and whose time has not run *)
(* out, really does: takeover and refusal reach it at once.  (A page whose *)
(* queue overflowed misses the message, and is being disconnected.)        *)
BelieverHolds ==
    \A c \in Clients \ overflown :
        told[c].role = "controller" /\ now < told[c].until =>
            Valid(lease[c], grant, now)

(* Takeover always transfers the lease, again so long as no target has     *)
(* answered invalid_control_lease: after that only its expiry frees it.    *)
TakeoverTransfers ==
    [][~echoed => \A c \in Sessions : ~TakeFails(c)]_vars

(* A session that leaves never releases somebody else's lease, though the  *)
(* grant it still holds may have expired and been issued again.            *)
LeavingSparesOthers ==
    [][\A c \in Sessions :
         status'[c] = "gone" /\ status[c] # "gone" /\ Active # NoGrant =>
             Active.owner = c \/ grant' = grant]_vars

(* A session that does not hold the lease never gets a command through.    *)
OnlyHolderRoutes ==
    [][\A c \in busy' \ busy : Active # NoGrant /\ Active.owner = c]_vars

(* A client that cannot keep up, or is lost, leaves the hub, although it   *)
(* may be waiting for a target: it never keeps control for good.           *)
LostClientLeaves ==
    \A c \in Sessions :
        (c \in overflown /\ status[c] = "open") \/ status[c] = "ending"
            ~> status[c] = "gone"
=============================================================================
