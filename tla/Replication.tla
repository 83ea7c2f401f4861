---------------------------- MODULE Replication ----------------------------
(***************************************************************************)
(* The server host, its remote clients and the network between them.       *)
(***************************************************************************)
EXTENDS ServerNetworkHost, ClientProtocolPump

vars == <<networkVars, hostVars, clientVars>>

(* Types of the network, of ServerNetworkHost and of the remote sessions.   *)
TypeOK == NetworkTypeOK /\ HostTypeOK /\ ClientTypeOK

Init == NetworkInit /\ HostInit /\ ClientInit

HostStep ==
    /\ \/ TickAndSendSnapshots
       \/ \E c \in Client : ConnectSimulationOnlyClient(c) \/ PumpClientMessage(c)
    /\ UNCHANGED clientVars

RemoteStep(c) == ClientStep(c) /\ UNCHANGED hostVars

NetworkStep(c) == Lose(c) /\ UNCHANGED <<hostVars, clientVars>>

Next ==
    \/ HostStep
    \/ \E c \in Remote : RemoteStep(c) \/ NetworkStep(c)

Spec == Init /\ [][Next]_vars

(***************************************************************************)
(* Fairness.  The server's loop keeps ticking (ServerApplication runs it    *)
(* until it is stopped); a transport that is asked again and again to send  *)
(* an event accepts it some time, and does not lose it every time: a class  *)
(* that is in flight again and again arrives.                               *)
(***************************************************************************)
ResendAccepted(c, id) ==
    /\ ResendPendingReliableEvents
    /\ \E p \in ReliableEventsDueForResend(pending[c]) :
          p.event.id = id /\ Sent(p) \in pending'[c]
    /\ UNCHANGED clientVars

EventArrives(c, id) ==
    /\ \E e \in events[c] : e.id = id /\ PumpReliableEvent(c, e)
    /\ UNCHANGED hostVars

EventAckArrives(c, id) ==
    HandleNetworkEventAckEnvelope(c, id) /\ UNCHANGED clientVars

Fairness ==
    /\ WF_vars(TickAndSendSnapshots /\ UNCHANGED clientVars)
    /\ \A c \in Remote, id \in 1..MaxEventId :
          /\ SF_vars(ResendAccepted(c, id))
          /\ SF_vars(EventArrives(c, id))
          /\ SF_vars(EventAckArrives(c, id))

FairSpec == Spec /\ Fairness

-----------------------------------------------------------------------------
(* Safety *)

(* The server forgets a reliable event only after the client ingested it:   *)
(* every event tracked for a client is pending or was ingested, whatever    *)
(* was lost, repeated or acknowledged in whatever order.                    *)
ForgottenOnlyAfterIngested ==
    \A c \in Client : \A e \in told[c] :
        e \in ingested[c] \/ \E p \in pending[c] : p.event = e

(* A snapshot sent as a delta names a baseline that its client has applied. *)
DeltaBaselineWasApplied ==
    \A c \in Client : \A s \in snapshots[c] :
        s.kind = "DeltaEligible" => s.baseline \in applied[c]

(* The events each client is still owed.                                    *)
Owed == [c \in Client |-> {p.event : p \in pending[c]}]

Delivery == INSTANCE ReliableDelivery WITH owed <- Owed

(* The host, its clients and the network implement reliable delivery: each  *)
(* event is told once, kept until its own client has ingested it, and       *)
(* forgotten one at a time, whatever the acknowledgements do.               *)
ImplementsReliableDelivery == Delivery!Spec

(* The interest events client c holds or will be sent about entity x.       *)
InterestEventsAbout(c, x) ==
    {e \in ingested[c] \cup {p.event : p \in pending[c]} :
        e.kind \in InterestKinds /\ e.subject = x}

(* The last interest event about x told to client c, in id order, says      *)
(* "entered" exactly when the tracker of c knows x.                         *)
LastInterestAgrees(c, x) ==
    (x \in known[c]) <=>
        \E e \in InterestEventsAbout(c, x) :
            /\ e.kind = "EntityEnteredInterest"
            /\ \A f \in InterestEventsAbout(c, x) : f.id <= e.id

(* The reliable interest events tell a client what its tracker knows: once  *)
(* SendInterestEvents has finished, the newest interest event about each    *)
(* entity that the client ingested or is still owed agrees with the tracker *)
(* that the next frame will be computed from.                               *)
InterestStreamMatchesTracker ==
    \A c \in Remote, x \in Entity :
        (frame = NoFrame \/ ~Serving(c)) => LastInterestAgrees(c, x)

(***************************************************************************)
(* What makes the first two inductive.                                      *)
(***************************************************************************)

(* Every snapshot acknowledgement, in flight or recorded, is about a        *)
(* snapshot the client applied.                                             *)
AckedSnapshotsWereApplied ==
    \A c \in Client :
        /\ snapshotAcks[c] \subseteq applied[c]
        /\ acked[c] # 0 => acked[c] \in applied[c]

(* Every event acknowledgement in flight is about an event ingested.        *)
AckedEventsWereIngested ==
    \A c \in Client : \A id \in eventAcks[c] :
        \E e \in ingested[c] : e.id = id

(* Whatever is pending, in flight or ingested was told to the client.       *)
OnlyToldEvents ==
    \A c \in Client :
        /\ \A p \in pending[c] : p.event \in told[c]
        /\ events[c] \subseteq told[c]
        /\ ingested[c] \subseteq told[c]

(* An event id names one event at a client, and the next id is fresh.       *)
EventIdsAreUnique ==
    \A c \in Client : \A e \in told[c] :
        /\ e.id < nextNetworkEventId
        /\ \A f \in told[c] : f.id = e.id => f = e

-----------------------------------------------------------------------------
(* Liveness *)

(* A pending reliable event is eventually acknowledged and forgotten.       *)
PendingIsEventuallyAcknowledged ==
    \A c \in Remote : \A id \in 1..MaxEventId :
        IsPending(pending[c], id) ~> ~IsPending(pending[c], id)

(* A client the server admitted learns of it: it gets its spawn event.      *)
AdmittedClientConnects ==
    \A c \in Remote : (c \in NetworkClients) ~> (connection[c] = "Connected")
=============================================================================
