---------------------------- MODULE ChatGptTokens ----------------------------
(***************************************************************************)
(* The provider for ChatGPT subscriptions                                  *)
(* (genkit/openai_chatgpt_provider.go): calls share one bundle of tokens.  *)
(* Whoever finds the access token about to expire asks for a new bundle    *)
(* with the refresh token, under the mutex; then the call is made, and a   *)
(* streamed answer is passed on by a goroutine.                            *)
(*                                                                         *)
(* Tokens are the numbers of their bundles.  The token service may rotate: *)
(* then a refresh token is good for one refresh (how it answers is         *)
(* external to this repository).                                           *)
(***************************************************************************)
EXTENDS Integers, Sequences

CONSTANTS
  Calls,       \* calls of Chat and Stream, each made once (bound)
  MaxBundles,  \* bound: bundles the service gives out
  ChannelSize  \* the events a stream channel holds: 64

VARIABLES
  rotating,  \* the service: whether it rotates refresh tokens
  issued,    \* the service: its latest bundle, and the refresh tokens it would refuse
  clock,     \* access tokens up to this bundle expire within five minutes
  lost,      \* whether the answer to a refresh was lost
  mu,        \* p.mu: the call that holds it, or {}
  tokens,    \* p.tokens
  gpt        \* the calls: where each is, its access token, its stream

tokenvars == <<rotating, issued, clock, lost, mu, tokens, gpt>>

Bundles == 0 .. MaxBundles   \* 0: no token
Events  == {"text", "done", "error", "closed"}
Ended   == {"done", "failed"}
Pcs == {"idle", "lock", "refresh", "answer", "send", "stream"} \cup Ended

TypeOK ==
  /\ rotating \in BOOLEAN
  /\ issued \in [latest : Bundles, spent : SUBSET Bundles]
  /\ clock \in Bundles /\ lost \in BOOLEAN
  /\ mu \in SUBSET Calls
  /\ tokens \in [access : Bundles, refresh : Bundles]
  /\ gpt \in [Calls -> [pc : Pcs, access : Bundles, reply : Bundles,
                        chan : Seq(Events), last : Events \cup {"none"}]]

\* A bundle needs one of the two tokens (ParseOpenAIChatGPTTokenBundle).
Init ==
  /\ rotating \in BOOLEAN
  /\ issued = [latest |-> 1, spent |-> {}]
  /\ clock \in {0, 1} /\ lost = FALSE
  /\ mu = {}
  /\ tokens \in [access : {0, 1}, refresh : {0, 1}] /\ tokens # [access |-> 0, refresh |-> 0]
  /\ gpt = [c \in Calls |-> [pc |-> "idle", access |-> 0, reply |-> 0, chan |-> <<>>, last |-> "none"]]

Goto(c, pc) == gpt' = [gpt EXCEPT ![c].pc = pc]
Fresh(access) == access > clock

-----------------------------------------------------------------------------
(* ensureAccessToken *)

Call(c) ==
  /\ gpt[c].pc = "idle"
  /\ Goto(c, "lock")
  /\ UNCHANGED <<rotating, issued, clock, lost, mu, tokens>>

\* A token that is good is taken; it is made good under the mutex, or not at all.
Good(c) ==
  /\ gpt[c].pc = "lock" /\ mu = {}
  /\ Fresh(tokens.access)
  /\ gpt' = [gpt EXCEPT ![c].pc = "send", ![c].access = tokens.access]
  /\ UNCHANGED <<rotating, issued, clock, lost, mu, tokens>>

Hopeless(c) ==
  /\ gpt[c].pc = "lock" /\ mu = {}
  /\ ~Fresh(tokens.access) /\ tokens.refresh = 0
  /\ Goto(c, "failed")
  /\ UNCHANGED <<rotating, issued, clock, lost, mu, tokens>>

\* The request to the token service is sent, and the mutex kept.
Ask(c) ==
  /\ gpt[c].pc = "lock" /\ mu = {}
  /\ ~Fresh(tokens.access) /\ tokens.refresh # 0
  /\ mu' = {c}
  /\ gpt' = [gpt EXCEPT ![c].pc = "refresh", ![c].reply = tokens.refresh]
  /\ UNCHANGED <<rotating, issued, clock, lost, tokens>>

\* The service (external): a refresh token that is good gets a new bundle.
Serve(c) ==
  /\ gpt[c].pc = "refresh" /\ gpt[c].reply \notin issued.spent
  /\ issued.latest < MaxBundles
  /\ issued' = [latest |-> issued.latest + 1,
                spent  |-> IF rotating THEN issued.spent \cup {gpt[c].reply} ELSE issued.spent]
  /\ gpt' = [gpt EXCEPT ![c].pc = "answer", ![c].reply = issued.latest + 1]
  /\ UNCHANGED <<rotating, clock, lost, mu, tokens>>

\* The new bundle replaces the old one.  Where it names no refresh token the old
\* one is kept: it was not rotated.
Store(c) ==
  /\ gpt[c].pc = "answer"
  /\ tokens' = [access  |-> gpt[c].reply,
                refresh |-> IF rotating THEN gpt[c].reply ELSE tokens.refresh]
  /\ mu' = mu \ {c}
  /\ gpt' = [gpt EXCEPT ![c].pc = "send", ![c].access = gpt[c].reply]
  /\ UNCHANGED <<rotating, issued, clock, lost>>

\* The service refuses or is not reached, the answer does not parse, or the
\* caller's context ends: after the answer was on its way, it is lost.
RefreshFails(c) ==
  /\ gpt[c].pc \in {"refresh", "answer"}
  /\ lost' = (lost \/ gpt[c].pc = "answer")
  /\ mu' = mu \ {c}
  /\ Goto(c, "failed")
  /\ UNCHANGED <<rotating, issued, clock, tokens>>

Age ==
  /\ clock < issued.latest
  /\ clock' = clock + 1
  /\ UNCHANGED <<rotating, issued, lost, mu, tokens, gpt>>

-----------------------------------------------------------------------------
(* Chat and Stream *)

\* doResponsesRequest, outside of the mutex: an answer, a stream, or an error.
Send(c) ==
  /\ gpt[c].pc = "send"
  /\ \E pc \in {"done", "failed", "stream"} : Goto(c, pc)
  /\ UNCHANGED <<rotating, issued, clock, lost, mu, tokens>>

Put(c, event, last) ==
  gpt' = [gpt EXCEPT ![c].chan = Append(@, event), ![c].last = last]

\* The goroutine of Stream passes on what it reads.  The text may go on after
\* response.completed, and the body may end without it.
Emit(c) ==
  /\ gpt[c].pc = "stream" /\ gpt[c].last \notin {"error", "closed"}
  /\ Len(gpt[c].chan) < ChannelSize
  /\ \E event \in {"text", "done", "error"} : Put(c, event, event)
  /\ UNCHANGED <<rotating, issued, clock, lost, mu, tokens>>

\* The body is read to its end, or an error was sent: the channel is closed.
Close(c) ==
  /\ gpt[c].pc = "stream" /\ gpt[c].last # "closed"
  /\ gpt' = [gpt EXCEPT ![c].last = "closed"]
  /\ UNCHANGED <<rotating, issued, clock, lost, mu, tokens>>

\* The caller takes an event; once the channel is closed and empty it is through.
Take(c) ==
  /\ gpt[c].pc = "stream"
  /\ \/ gpt[c].chan # <<>> /\ gpt' = [gpt EXCEPT ![c].chan = Tail(@)]
     \/ gpt[c].chan = <<>> /\ gpt[c].last = "closed"
        /\ gpt' = [gpt EXCEPT ![c].pc = "done", ![c].last = "none"]
  /\ UNCHANGED <<rotating, issued, clock, lost, mu, tokens>>

CallNext(c) ==
  \/ Call(c) \/ Good(c) \/ Hopeless(c) \/ Ask(c) \/ Serve(c) \/ Store(c) \/ RefreshFails(c)
  \/ Send(c) \/ Emit(c) \/ Close(c) \/ Take(c)

Next == Age \/ \E c \in Calls : CallNext(c)

Spec == Init /\ [][Next]_tokenvars

-----------------------------------------------------------------------------
\* The provider never shows the service a refresh token that it has spent, as
\* long as no answer of the service was lost: calls that find the token expired
\* at the same time make one refresh between them, and what it brought is kept
\* (ensureAccessToken).
NoSpentTokenIsShown ==
  ~lost => \A c \in Calls : gpt[c].pc = "refresh" => gpt[c].reply \notin issued.spent
=============================================================================
