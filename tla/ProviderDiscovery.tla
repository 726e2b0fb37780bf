------------------------- MODULE ProviderDiscovery -------------------------
(***************************************************************************)
(* checkProvider and listModels                                            *)
(* (packages/provider-discovery/src/discovery.ts, parse.ts): one call, its *)
(* awaits, and the abort that may come at each of them.  The calls of one  *)
(* service share nothing that they change.                                 *)
(*                                                                         *)
(* A promise that is settled is consumed before the next task (Settling),  *)
(* except that the wait for the credential does not look at the signal.    *)
(* The document is known by how it is wrong; latencies are left out.       *)
(***************************************************************************)
EXTENDS Integers

CONSTANTS MaxBytes,  \* maxResponseBytes
          MaxChunk   \* bound: bytes of a chunk of the body

ASSUME DiscoveryAssumption == MaxBytes \in Nat /\ MaxChunk \in Nat

VARIABLES method,    \* "check" or "list"
          provider,  \* what the registry has under the id
          cancelled, \* signal.aborted
          at,        \* where the call is
          response,  \* "none", "asked", "held" or "released"
          size,      \* bytes read
          answer     \* "none", or what the call answered

discoveryVars == <<method, provider, cancelled, at, response, size, answer>>

DiscoveryInit ==
  /\ method \in {"check", "list"}
  /\ provider \in {"usable", "invalid_id", "unknown", "disabled", "no_credential"}
  /\ cancelled \in BOOLEAN
  /\ at = "called" /\ response = "none" /\ size = 0 /\ answer = "none"

ConfigErrors == {"invalid_provider_id", "provider_not_found", "provider_disabled",
                 "missing_credential", "credential_not_found"}

\* healthStatusForError; a configuration error is not a health.
Health(code) ==
  CASE code \in ConfigErrors \cup {"aborted", "unauthorized", "rate_limited"} -> code
    [] code \in {"provider_protocol_error", "duplicate_model_id", "response_too_large"} -> "protocol_error"
    [] code = "catalog" -> "healthy"
    [] OTHER -> "unavailable"

Answer(code) == /\ at' = "answered"
                /\ answer' = IF method = "check" THEN Health(code) ELSE code

(***************************************************************************)
(* Up to the request.                                                      *)
(***************************************************************************)
\* resolveProvider and the credential's name.
Unusable == [invalid_id    |-> "invalid_provider_id", unknown |-> "provider_not_found",
             disabled      |-> "provider_disabled",
             no_credential |-> "missing_credential"]

LoadCatalog ==
  /\ at = "called"
  /\ IF cancelled THEN Answer("aborted")
     ELSE IF provider \in DOMAIN Unusable THEN Answer(Unusable[provider])
     ELSE at' = "credential" /\ UNCHANGED answer
  /\ UNCHANGED <<method, provider, cancelled, response, size>>

\* The store knows a secret or not; the signal is looked at only now.
CredentialArrives(known) ==
  /\ at = "credential"
  /\ IF cancelled THEN Answer("aborted") /\ UNCHANGED response
     ELSE IF ~known THEN Answer("credential_not_found") /\ UNCHANGED response
     ELSE at' = "fetching" /\ response' = "asked" /\ UNCHANGED answer
  /\ UNCHANGED <<method, provider, cancelled, size>>

\* The store's error is passed on as it is.
CredentialFails == /\ at = "credential" /\ Answer("store_error")
                   /\ UNCHANGED <<method, provider, cancelled, response, size>>

(***************************************************************************)
(* fetchCatalogText and readBodyText.                                      *)
(***************************************************************************)
\* Mutant: only the reading of the body races the signal.
MutantSettling == cancelled /\ at = "reading"

Settling == cancelled /\ at \in {"fetching", "reading"}

\* The finally of readBodyText returns the iterator of the body.
Leave(code) == /\ Answer(code)
               /\ response' = IF at = "reading" THEN "released" ELSE response
               /\ UNCHANGED <<method, provider, cancelled>>

AbortSettles == Settling /\ Leave("aborted") /\ UNCHANGED size

\* Mutant: the answer to a call that was aborted is dropped.
MutantLate == "held"

\* What becomes of a response that comes when the call was aborted.
Late == "released"

StatusErrors == {"unauthorized", "rate_limited", "upstream_unavailable"}

HttpAnswers ==
  /\ response = "asked" /\ ~Settling
  /\ UNCHANGED <<method, provider, cancelled, size>>
  /\ \/ /\ at = "answered" /\ response' = Late
        /\ UNCHANGED <<at, answer>>
     \/ /\ at = "fetching"
        /\ \/ \E code \in StatusErrors : Answer(code) /\ response' = "released"
           \/ Answer("provider_protocol_error") /\ response' = "none"  \* no body
           \/ at' = "reading" /\ response' = "held" /\ UNCHANGED answer

HttpFails ==
  /\ response = "asked" /\ ~Settling /\ response' = "none"
  /\ IF at = "fetching" THEN Answer("upstream_unavailable") ELSE UNCHANGED <<at, answer>>
  /\ UNCHANGED <<method, provider, cancelled, size>>

BodyChunk(bytes) ==
  /\ at = "reading" /\ ~cancelled
  /\ size' = size + bytes
  /\ IF size' > MaxBytes THEN Leave("response_too_large")
     ELSE UNCHANGED <<method, provider, cancelled, at, response, answer>>

BodyFails == at = "reading" /\ ~cancelled /\ Leave("provider_protocol_error") /\ UNCHANGED size

\* The whole body: a catalog, or a document parseModelCatalogDocument refuses.
BodyEnds == /\ at = "reading" /\ ~cancelled /\ UNCHANGED size
            /\ \E code \in {"catalog", "duplicate_model_id", "provider_protocol_error"} : Leave(code)

AbortCall == /\ ~cancelled /\ at # "answered" /\ cancelled' = TRUE
             /\ UNCHANGED <<method, provider, at, response, size, answer>>

Consume == LoadCatalog \/ AbortSettles
Credential == CredentialFails \/ \E known \in BOOLEAN : CredentialArrives(known)

DiscoveryNext == \/ Consume \/ Credential
                 \/ HttpAnswers \/ HttpFails \/ BodyFails \/ BodyEnds \/ AbortCall
                 \/ \E bytes \in 1 .. MaxChunk : BodyChunk(bytes)

\* The credential source kills its helper after five seconds.
DiscoveryFairness == WF_discoveryVars(Consume) /\ WF_discoveryVars(Credential)

(***************************************************************************)
(* Properties.                                                             *)
(***************************************************************************)
\* A response that arrived is released when the call has ended, on every path,
\* also if it arrives after an abort; a catalog was read to its end and within
\* the limit.
ResponseReleased ==
  /\ at = "answered" => response # "held"
  /\ answer \in {"healthy", "catalog"} => response = "released" /\ size <= MaxBytes

\* An abort is answered although the provider never answers, and as an abort,
\* unless the credential store itself fails.
AbortAnswered ==
  cancelled /\ at # "answered" ~> at = "answered" /\ answer \in {"aborted", "store_error", "unavailable"}
=============================================================================
