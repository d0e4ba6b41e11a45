------------------------------ MODULE MCGateways ------------------------------
(* The two gateways for TLC: a behaviour is of the one `gateway' names.  Both    *)
(* have the exchange with the browser, and the status they end it with.          *)
EXTENDS ForwardGateway

CONSTANTS MaxItems

ASSUME MaxItemsAssumption == MaxItems \in Nat \ {0}

VARIABLES
  gateway,      \* "forward" or "direct"
  kind, source, produced, pending, failure, woken, dpc

Direct == INSTANCE DirectGateway

ownOfForward == <<streaming, up, cancelled, dataEvents, queue, broken>>
ownOfDirect  == <<kind, source, produced, pending, failure, woken, dpc>>
all == <<gateway, exchange, status, ownOfForward, ownOfDirect>>

InitGateways == gateway \in {"forward", "direct"} /\ Init /\ Direct!Init

\* An action of the one or of the other.
OfForward(A) == gateway = "forward" /\ A /\ UNCHANGED <<gateway, ownOfDirect>>
OfDirect(A)  == gateway = "direct" /\ A /\ UNCHANGED <<gateway, ownOfForward>>

NextGateways == OfForward(Next) \/ OfDirect(Direct!Next)

\* The fairness of ForwardGateway's ReadingSpec and of DirectGateway's FairSpec.
FairGateways ==
  /\ WF_all(OfForward(Gateway))
  /\ WF_all(OfForward(CallCancelled))
  /\ WF_all(OfForward(Transmit /\ UNCHANGED upstream))
  /\ WF_all(OfDirect(Direct!Dispatch))
  /\ WF_all(OfDirect(Direct!Procedure))
  /\ WF_all(OfDirect(Direct!Source))
  /\ WF_all(OfDirect(Transmit /\ UNCHANGED <<status, ownOfDirect>>))

SpecGateways == InitGateways /\ [][NextGateways]_all /\ FairGateways

-----------------------------------------------------------------------------
(* The properties of each gateway in the behaviours that are of it *)

\* A forwarded call's trailer tells the truth (forward.ts).
ForwardTruthfulTrailer == gateway = "forward" => TruthfulTrailer

\* An OK trailer of the direct gateway tells the browser it has everything
\* (direct.ts and its bridge to observables).
DirectOkMeansComplete == gateway = "direct" => Direct!OkMeansComplete

\* No stream outlives a direct dispatcher that has returned.
DirectStreamReleased == gateway = "direct" => Direct!StreamReleased

\* Back pressure reaches an iterable behind the direct dispatcher.
DirectPulledOnDemand == gateway = "direct" => Direct!PulledOnDemand

\* Once the backend's call, or the stream behind the direct dispatcher, has ended,
\* the handler returns: no wait of emit or of the bridge misses what it waits for.
HandlersReturn == EndReturns /\ Direct!EndReturns
=============================================================================
