------------------------- MODULE MCResilientGateway -------------------------
(***************************************************************************)
(* What is asked of providers: a stream over three of them, with a total   *)
(* budget that ends inside the third, or a call of provider discovery.     *)
(* They share nothing; the initial state chooses one, the other rests.     *)
(***************************************************************************)
EXTENDS ResilientGateway, ProviderDiscovery

VARIABLE asked \* what is asked for

NoStream == /\ aborted = FALSE /\ pc = "returned"
            /\ n = 0 /\ cand = 1 /\ attempt = 0 /\ used = 0 /\ visible = FALSE
            /\ last = "gateway_error" /\ frames = 0 /\ batch = <<>> /\ final = FALSE
            /\ eof = FALSE /\ out = <<>> /\ http = <<>>

NoCall == /\ method = "list" /\ provider = "usable" /\ cancelled = FALSE /\ at = "answered"
          /\ response = "none" /\ size = 0 /\ answer = "none"

CallsInit == \/ asked = "stream" /\ Init /\ NoCall
             \/ asked = "discovery" /\ NoStream /\ DiscoveryInit

CallsNext == /\ UNCHANGED asked
             /\ \/ asked = "stream" /\ Next /\ UNCHANGED discoveryVars
                \/ asked = "discovery" /\ DiscoveryNext /\ UNCHANGED vars

CallsSpec == /\ CallsInit /\ [][CallsNext]_<<asked, vars, discoveryVars>>
             /\ Fairness /\ DiscoveryFairness

\* An operation that is over holds no response: a stream has released each one
\* or will when it comes, with the one exception that OneLiveRequest names; a
\* discovery call has no exception.
ResponsesReleased == OneLiveRequest /\ ResponseReleased

\* An abort ends a stream, and a discovery call is answered.
AbortsAnswered == AbortEnds /\ AbortAnswered
=============================================================================
