---------------------------- MODULE SignInState ----------------------------
(***************************************************************************)
(* The redirects of a social sign-in.                                      *)
(*                                                                         *)
(* A flow is started for a provider and stores, under a random state, the  *)
(* provider and the frontend to return to.  The browser comes back with    *)
(* the state and a code, perhaps more than once and perhaps on the         *)
(* callback of another provider.  A callback takes the state out of Redis, *)
(* exchanges the code, which the provider does once for each code, finds   *)
(* the account (Accounts models how) and redirects: with tokens to the     *)
(* stored frontend, or with an error to the default one.                   *)
(***************************************************************************)
EXTENDS FiniteSets

CONSTANTS
  Providers,     (* those that are enabled                                 *)
  Flows,         (* calls of start; each has a state of its own            *)
  Callbacks,
  Codes,         (* what providers hand out, one for each consent          *)
  Allowed,       (* origins of the allow-list, the default frontend too    *)
  Asked,         (* what a flow may ask for: origins, allowed or not       *)
  Frontend,      (* the default frontend                                   *)
  NoFlow, NoCode, Gone

SignInAssumption ==
  /\ Frontend \in Allowed
  /\ NoFlow \notin Flows /\ NoCode \notin Codes
  /\ Gone \notin Providers \X (Allowed \cup Asked)

VARIABLES
  stored,     (* Redis: provider and origin under each flow's state        *)
  asked,      (* what each flow asked for when it was started              *)
  consented,  (* the flow on whose page each code was given                *)
  spent,      (* codes the provider has exchanged                          *)
  progress,   (* where each callback is                                    *)
  flow, code, (* what each callback brought                                *)
  via,        (* the provider whose callback it is                         *)
  home,       (* the origin it took out of Redis                           *)
  landed      (* where each ended callback sent the browser                *)

vars == <<stored, asked, consented, spent, progress, flow, code, via, home, landed>>

Stages == {"waiting", "arrived", "consumed", "exchanged", "tokens", "error"}
Move(c, p) == progress' = [progress EXCEPT ![c] = p]

\* An error redirects to the default frontend.
Refuse(c) ==
  /\ Move(c, "error")
  /\ landed' = [landed EXCEPT ![c] = Frontend]

-----------------------------------------------------------------------------

Resolved(o) == IF o \in Allowed THEN o ELSE Frontend

Start(f) ==
  /\ asked[f] = Gone
  /\ \E p \in Providers, o \in Asked :
       /\ asked' = [asked EXCEPT ![f] = <<p, o>>]
       /\ stored' = [stored EXCEPT ![f] = <<p, Resolved(o)>>]
  /\ UNCHANGED <<consented, spent, progress, flow, code, via, home, landed>>

\* Ten minutes pass.
Expire(f) ==
  /\ stored[f] # Gone
  /\ stored' = [stored EXCEPT ![f] = Gone]
  /\ UNCHANGED <<asked, consented, spent, progress, flow, code, via, home, landed>>

\* The person consents on the provider's page: the redirect carries the state
\* of the flow and a new code.
Consent(k, f) ==
  /\ asked[f] # Gone /\ consented[k] = NoFlow
  /\ consented' = [consented EXCEPT ![k] = f]
  /\ UNCHANGED <<stored, asked, spent, progress, flow, code, via, home, landed>>

\* The browser follows the redirect, follows it again, or an Apple form is
\* posted to Google's callback: the state and the code are those of a consent.
Arrive(c) ==
  /\ progress[c] = "waiting"
  /\ \E k \in Codes, p \in Providers :
       /\ consented[k] # NoFlow
       /\ flow' = [flow EXCEPT ![c] = consented[k]]
       /\ code' = [code EXCEPT ![c] = k]
       /\ via' = [via EXCEPT ![c] = p]
  /\ Move(c, "arrived")
  /\ UNCHANGED <<stored, asked, consented, spent, home, landed>>

\* Mutant: the state is read and left where it is.
LeftInRedis(f) == stored
Taken(f) == [stored EXCEPT ![f] = Gone]

OfProvider(f, p) == stored[f] # Gone /\ stored[f][1] = p

\* GETDEL: the state is burnt even when it is refused.
Consume(c) ==
  /\ progress[c] = "arrived"
  /\ stored' = Taken(flow[c])
  /\ IF OfProvider(flow[c], via[c])
     THEN /\ home' = [home EXCEPT ![c] = stored[flow[c]][2]]
          /\ Move(c, "consumed")
          /\ UNCHANGED landed
     ELSE Refuse(c) /\ UNCHANGED home
  /\ UNCHANGED <<asked, consented, spent, flow, code, via>>

\* The provider exchanges a code once; the exchange, or the profile, may fail,
\* and a provider out of reach ends the callback with a 500, without a redirect.
Exchange(c) ==
  /\ progress[c] = "consumed"
  /\ \/ /\ code[c] \notin spent
        /\ Move(c, "exchanged")
        /\ spent' = spent \cup {code[c]}
        /\ UNCHANGED landed
     \/ Refuse(c) /\ spent' = spent \cup {code[c]}
     \/ Move(c, "error") /\ UNCHANGED <<spent, landed>>
  /\ UNCHANGED <<stored, asked, consented, flow, code, via, home>>

\* The account is found or created, and tokens are issued, or it is deleted; a
\* second account with its mail, which a unique index refuses, is a 500.
Finish(c) ==
  /\ progress[c] = "exchanged"
  /\ \/ /\ Move(c, "tokens")
        /\ landed' = [landed EXCEPT ![c] = home[c]]
     \/ Refuse(c)
     \/ Move(c, "error") /\ UNCHANGED landed
  /\ UNCHANGED <<stored, asked, consented, spent, flow, code, via, home>>

Init ==
  /\ stored = [f \in Flows |-> Gone] /\ asked = [f \in Flows |-> Gone]
  /\ consented = [k \in Codes |-> NoFlow] /\ spent = {}
  /\ progress = [c \in Callbacks |-> "waiting"]
  /\ flow = [c \in Callbacks |-> NoFlow] /\ code = [c \in Callbacks |-> NoCode]
  /\ via = [c \in Callbacks |-> Gone] /\ home = [c \in Callbacks |-> Gone]
  /\ landed = [c \in Callbacks |-> Gone]

Next ==
  \/ \E f \in Flows : Start(f) \/ Expire(f) \/ \E k \in Codes : Consent(k, f)
  \/ \E c \in Callbacks : Arrive(c) \/ Consume(c) \/ Exchange(c) \/ Finish(c)

Spec == Init /\ [][Next]_vars

-----------------------------------------------------------------------------

SignedIn == {c \in Callbacks : progress[c] = "tokens"}

\* Every variable keeps its shape.
TypeOK ==
  /\ stored \in [Flows -> (Providers \X Allowed) \cup {Gone}]
  /\ asked \in [Flows -> (Providers \X Asked) \cup {Gone}]
  /\ consented \in [Codes -> Flows \cup {NoFlow}] /\ spent \subseteq Codes
  /\ progress \in [Callbacks -> Stages]
  /\ flow \in [Callbacks -> Flows \cup {NoFlow}] /\ code \in [Callbacks -> Codes \cup {NoCode}]
  /\ via \in [Callbacks -> Providers \cup {Gone}]
  /\ home \in [Callbacks -> Allowed \cup {Gone}] /\ landed \in [Callbacks -> Allowed \cup {Gone}]

\* A flow signs in at most once, however often the browser comes back with its
\* state and with fresh codes, on the callback of the provider it was started
\* for, and its tokens go to the frontend it was started from if that is on
\* the allow-list, else to the default one.
FlowSignsInOnce ==
  /\ \A c, d \in SignedIn : flow[c] = flow[d] => c = d
  /\ \A c \in SignedIn : /\ via[c] = asked[flow[c]][1]
                         /\ landed[c] = Resolved(asked[flow[c]][2])
=============================================================================
