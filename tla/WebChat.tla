------------------------------ MODULE WebChat -------------------------------
(***************************************************************************)
(* The chat page of web/index.html in front of LlmRouter: sendPrompt is an *)
(* async function, so while one call awaits its fetch the Enter key may    *)
(* start another; only the button is disabled.  A job is one prompt.       *)
(***************************************************************************)
EXTENDS LlmRouter, SequencesExt

VARIABLES asked,     \* per job, the request the page posted
          pending,   \* jobs whose fetch has not come back to the page
          chat,      \* the messages in the order of the page
          disabled   \* the send button
pageVars == <<asked, pending, chat, disabled>>
vars == <<routerVars, pageVars>>

Message(kind, j) == [kind |-> kind, job |-> j]

Loading(j) == Message("loading", j)

Shown(kind, j) == \E i \in DOMAIN chat : chat[i] = Message(kind, j)

PageInit ==
  /\ Init
  /\ asked = [j \in Jobs |-> NoRequest]
  /\ pending = {}
  /\ chat = <<>>
  /\ disabled = FALSE

\* Up to the fetch; by the button or by the Enter key, which does not look at the
\* button.
SendPrompt(j, r) ==
  /\ asked[j] = NoRequest
  /\ asked' = [asked EXCEPT ![j] = r]
  /\ pending' = pending \cup {j}
  /\ chat' = chat \o <<Message("user", j), Loading(j)>>
  /\ disabled' = TRUE
  /\ UNCHANGED routerVars

\* The request arrives at the router.
RequestArrives(j) ==
  /\ asked[j] # NoRequest
  /\ Receive(j, asked[j])
  /\ UNCHANGED pageVars

\* getElementById(loadingId): there is one for every prompt under way.
LoadingAt(j) == CHOOSE i \in DOMAIN chat : chat[i] = Loading(j)

WithoutLoading(j) == RemoveAt(chat, LoadingAt(j))

WithError(j) == ReplaceAt(chat, LoadingAt(j), Message("error", j))

\* Faulty: an error leaves the function before the button is enabled; the loading
\* message is removed only for an answer.
ReplyShownOnly(j) ==
  /\ j \in pending /\ phase[j] = "done"
  /\ pending' = pending \ {j}
  /\ IF status[j] = 200
     THEN disabled' = FALSE /\ chat' = Append(WithoutLoading(j), Message("answer", j))
     ELSE UNCHANGED disabled /\ chat' = WithoutLoading(j)
  /\ UNCHANGED <<asked, routerVars>>
ReplyKeepsLoading(j) ==
  /\ j \in pending /\ phase[j] = "done"
  /\ pending' = pending \ {j}
  /\ disabled' = FALSE
  /\ chat' = IF status[j] = 200 THEN Append(WithoutLoading(j), Message("answer", j)) ELSE chat
  /\ UNCHANGED <<asked, routerVars>>

\* The reply is a JSON document unless the router crashed (500, plain text): then
\* response.json() rejects while the loading message is still there to take the
\* error.  Otherwise the loading message is removed first, and the error thrown for
\* a status that is not ok finds nothing to be written into.
ReplyShown(j) ==
  /\ j \in pending /\ phase[j] = "done"
  /\ pending' = pending \ {j}
  /\ disabled' = FALSE
  /\ chat' = IF status[j] = 500
             THEN WithError(j)
             ELSE IF status[j] = 200
                  THEN Append(WithoutLoading(j), Message("answer", j))
                  ELSE WithoutLoading(j)
  /\ UNCHANGED <<asked, routerVars>>

\* fetch rejects: the router is gone or the connection is lost, at whatever point the
\* request is.
FetchFails(j) ==
  /\ j \in pending
  /\ pending' = pending \ {j}
  /\ disabled' = FALSE
  /\ chat' = WithError(j)
  /\ UNCHANGED <<asked, routerVars>>

PageNext ==
  \/ \E j \in Jobs :
       \/ \E r \in Requests : SendPrompt(j, r)
       \/ RequestArrives(j)
       \/ Handle(j) /\ UNCHANGED pageVars
       \/ ReplyShown(j) \/ FetchFails(j)
  \/ EndpointChanges /\ UNCHANGED pageVars

PageSpec == PageInit /\ [][PageNext]_vars

-----------------------------------------------------------------------------
\* The page shows one loading message for every prompt that is under way and none for
\* the others, however the prompts overtake one another and however each ends.
LoadingMeansPending ==
  \A j \in Jobs :
    Cardinality({i \in DOMAIN chat : chat[i] = Loading(j)}) = (IF j \in pending THEN 1 ELSE 0)

\* The button is not left disabled when nothing is under way.
ButtonComesBack == disabled => pending # {}

\* A prompt with the Private box ticked never reaches the server from this page.
PrivateChatStaysOnEdge ==
  \A j \in Jobs : asked[j] # NoRequest /\ asked[j].private => "server" \notin received[j]

-----------------------------------------------------------------------------
(* What the repository says and the code does not do.                      *)

\* web/index.html:400-401 an error is shown as "RouteEdge error: ...": every prompt that
\* came back has an answer or an error on the page.
ErrorsAreShown ==
  \A j \in Jobs : asked[j] # NoRequest /\ j \notin pending =>
    Shown("answer", j) \/ Shown("error", j)
=============================================================================
