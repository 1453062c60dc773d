-------------------------------- MODULE WebPage --------------------------------
(***************************************************************************)
(* A page of the web user interface: every page fetches what it shows with *)
(* the hook useAsync (hooks/useAsync.ts) through the API client            *)
(* (api/client.ts), for the filters or the run that the operator chose.    *)
(*                                                                         *)
(* React is external: it renders the page when a filter changes and runs   *)
(* the effect of the hook afterwards, which first calls the cleanup of the *)
(* effect before it.  Answers arrive in any order.                         *)
(* The names of what every module has begin with page, since a page and    *)
(* the ReadModels it shows are in each other's company (ReadModelsProofs). *)
(***************************************************************************)
EXTENDS Naturals, FiniteSets

CONSTANTS
  Params,      \* what the operator may ask for: the dependencies of the hook
  Nothing,     \* no data
  MaxRequests  \* bound on the requests of a page

ASSUME ParamsAssumption == Nothing \notin Params /\ MaxRequests \in Nat

VARIABLES
  params,    \* the filters of the page
  effect,    \* whether the effect is due: the page was rendered with new filters
  state,     \* data (what was asked for), loading and error
  requests,  \* the requests that have not been answered
  issued,    \* how many there have been
  mounted,
  retried    \* what was asked for by "Try again" (a history variable)

pageVars == <<params, effect, state, requests, issued, mounted, retried>>

Loading == [data |-> Nothing, loading |-> TRUE, error |-> FALSE]
Data(p) == [data |-> p, loading |-> FALSE, error |-> FALSE]
Error   == [data |-> Nothing, loading |-> FALSE, error |-> TRUE]

\* kept: the effect holds the cleanup of this invocation.
Request == [id : Nat, params : Params, kept : BOOLEAN, cancelled : BOOLEAN]

\* useAsync's execute.
Execute(rs, kept) ==
  /\ issued < MaxRequests
  /\ issued' = issued + 1
  /\ state' = Loading
  /\ requests' = rs \cup {[id |-> issued, params |-> params, kept |-> kept, cancelled |-> FALSE]}

Cleanup(rs) == {[q EXCEPT !.cancelled = q.cancelled \/ q.kept] : q \in rs}

\* The page is rendered with other filters; React has run the effects of the
\* render before.
Render(p) ==
  /\ mounted /\ ~ effect
  /\ p # params
  /\ issued < MaxRequests
  /\ params' = p
  /\ effect' = TRUE
  /\ UNCHANGED <<state, requests, issued, mounted, retried>>

RunEffect ==
  /\ mounted /\ effect
  /\ Execute(Cleanup(requests), TRUE)
  /\ effect' = FALSE
  /\ UNCHANGED <<params, mounted, retried>>

\* "Try again", which is shown with an error, calls refetch, which is execute
\* itself: nothing keeps the cleanup it returns.
Retry ==
  /\ mounted /\ state.error /\ ~ effect
  /\ Execute(requests, FALSE)
  /\ retried' = retried \cup {params}
  /\ UNCHANGED <<params, effect, mounted>>

\* The operator leaves the page, whose effect is cleaned up.
Leave ==
  /\ mounted
  /\ mounted' = FALSE
  /\ requests' = Cleanup(requests)
  /\ UNCHANGED <<params, effect, state, issued, retried>>

\* Faulty variant of Settle: the flag is not looked at.
SettleAnyway(q) ==
  /\ requests' = requests \ {q}
  /\ IF ~ mounted THEN state' = state
     ELSE state' \in {Data(q.params), Error}
  /\ UNCHANGED <<params, effect, issued, mounted, retried>>

\* Faulty variant of Settle: an error is not caught.
SettleUncaught(q) ==
  /\ requests' = requests \ {q}
  /\ IF q.cancelled \/ ~ mounted THEN state' = state
     ELSE state' \in {Data(q.params), state}
  /\ UNCHANGED <<params, effect, issued, mounted, retried>>

\* An answer, or an error of the network or of the API.  React ignores the state
\* of a page that is gone.
Settle(q) ==
  /\ requests' = requests \ {q}
  /\ IF q.cancelled \/ ~ mounted THEN state' = state
     ELSE state' \in {Data(q.params), Error}
  /\ UNCHANGED <<params, effect, issued, mounted, retried>>

-----------------------------------------------------------------------------
PageInit ==
  /\ params \in Params
  /\ effect = TRUE
  /\ state = Loading
  /\ requests = {}
  /\ issued = 0
  /\ mounted = TRUE
  /\ retried = {}

PageNext ==
  \/ \E p \in Params : Render(p)
  \/ RunEffect \/ Retry \/ Leave
  \/ \E q \in requests : Settle(q)

\* React runs every effect, and every request ends, with an answer or an error.
PageFairness == WF_pageVars(RunEffect) /\ WF_pageVars(\E q \in requests : Settle(q))

PageSpec == PageInit /\ [][PageNext]_pageVars /\ PageFairness

-----------------------------------------------------------------------------
\* Types; at most one request that is not cancelled has a kept cleanup.
PageTypeOK ==
  /\ params \in Params
  /\ effect \in BOOLEAN
  /\ state \in {Loading, Error} \cup {Data(p) : p \in Params}
  /\ requests \subseteq Request
  /\ issued \in Nat
  /\ mounted \in BOOLEAN
  /\ retried \subseteq Params
  /\ \A q \in requests : q.id < issued
  /\ \A q, r \in requests : q.kept /\ r.kept /\ ~ q.cancelled /\ ~ r.cancelled => q = r

\* What a page shows is what its filters ask for, unless the same was asked for
\* with "Try again" before: the cleanup keeps the answers to former filters away,
\* in whatever order they arrive (useAsync.ts:54-80).
StaleOnlyByRetry ==
  mounted /\ ~ effect /\ state.data # Nothing => state.data = params \/ state.data \in retried

\* A page that loads has a request whose answer it will take, or is about to
\* (useAsync.ts:57-71).
LoadingIsAwaited ==
  mounted /\ state.loading => effect \/ \E q \in requests : ~ q.cancelled

\* A page stops loading, although filters change and requests fail.
LoadingEnds == (mounted /\ state.loading) ~> ~ (mounted /\ state.loading)

=============================================================================
