------------------------------ MODULE MCRequest ------------------------------
(* Small instances of one relayed request, and of one site account with    *)
(* its channels.  A request takes a channel as it finds it when it looks   *)
(* the channel up, which RelayRequest leaves open, so the two share no     *)
(* state: each behaviour exercises one, `part`, and leaves the other as it *)
(* starts.  Fairness asks something of requests only.                      *)
EXTENDS MCRelayRequest, SiteOutlier, TLC

CONSTANTS m1, m2

RouteOf == (m1 :> "chat") @@ (m2 :> "claude")

Answer(tokens, listed, got, names, enable) ==
  [tokens |-> tokens, listed |-> listed, got |-> got, names |-> names, enable |-> enable]
ByModel(x, y) == (m1 :> x) @@ (m2 :> y)

\* Both groups' tokens are shown; one group has no token and its model is known from the
\* metadata; one token is masked, its models unknown, and no groups are listed.
Answers == {
  Answer(<<"full", "full">>, {1, 2}, <<"names", "names">>, <<{m1, m2}, {}>>, ByModel({}, {})),
  Answer(<<"full", "none">>, {1, 2}, <<"names", "names">>, <<{m1}, {}>>, ByModel({1, 2}, {})),
  Answer(<<"masked", "full">>, {}, <<"failed", "names">>, <<{}, {m1}>>, ByModel({}, {}))}

Bounds(steps, overlap, rounds, faults) ==
  [steps |-> steps, overlap |-> overlap, rounds |-> rounds, faults |-> faults]

\* Overlapping operations; failures and a round among them; a retirement, its recovery
\* and an operation before, between or after, without and with a failure; a round under
\* an operation; and auto-grouping, with a failure and with an edit in between.
MCStarts ==
  {FALSE} \X {Bounds(3, 2, 0, 0), Bounds(2, 2, 1, 1), Bounds(4, 0, 2, 0),
               Bounds(3, 0, 2, 1), Bounds(3, 1, 1, 0)}
    \cup {TRUE} \X {Bounds(2, 1, 0, 1), Bounds(3, 0, 0, 0)}

VARIABLE part

RequestInit ==
  /\ part \in {"request", "site"}
  /\ Init /\ SiInit /\ (part = "request" => siLeft = Bounds(3, 2, 0, 0))

RequestNext ==
  /\ \/ part = "request" /\ Next /\ UNCHANGED siVars
     \/ part = "site" /\ SoNext /\ UNCHANGED vars
  /\ UNCHANGED part

RequestSpec ==
  RequestInit /\ [][RequestNext]_<<part, vars, siVars>> /\ WF_vars(part = "request" /\ Handler)

\* Every request that runs ends, whatever its upstreams answer (run in
\* relay_handler.go); where an account is exercised no request runs.
EveryRequestTerminates == part = "request" => Terminates
=============================================================================
