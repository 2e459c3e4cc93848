------------------------------ MODULE CsrfTokens ------------------------------
(***************************************************************************)
(* csrfProtect (auth.go) and the tabs of one browser.  A request without   *)
(* the labdoc_csrf cookie is given a new token; a write must come with the *)
(* token of its cookie, from the page's <meta> (layout.html, through htmx) *)
(* or from the form it is in.  Pages of the app are replaced as a whole or,*)
(* by htmx, in their body only; the sign-in pages know no htmx.            *)
(***************************************************************************)
EXTENDS Naturals, FiniteSets

CONSTANTS
  Tabs,       \* the browser's tabs
  Patient,    \* the tabs whose user does not give up
  Tokens,     \* tokens, more than are about at one time
  None,       \* no token
  MaxTrouble  \* bound: how often the cookie expires or an answer is lost

ASSUME CsrfAssumption ==
  /\ Patient \subseteq Tabs
  /\ IsFiniteSet(Tabs) /\ IsFiniteSet(Tokens)
  /\ None \notin Tokens /\ Cardinality(Tokens) > 8 * Cardinality(Tabs)
  /\ MaxTrouble \in Nat

VARIABLES
  cookie,    \* the browser's token, or None
  tab,       \* tab -> the page it shows
  req,       \* tab -> its request under way
  disturbed, \* whether a cookie expired, or two were asked for at once (history)
  trouble    \* what MaxTrouble bounds

vars == <<cookie, tab, req, disturbed, trouble>>

MaybeToken == Tokens \cup {None}

\* posted: the token of the form this page is the direct answer to; htmx gives
\* what it puts in the body an address of its own.
Tab == [page : {"blank", "login", "app", "refused"},
        meta : MaybeToken, form : MaybeToken, posted : MaybeToken]
Blank == [page |-> "blank", meta |-> None, form |-> None, posted |-> None]

\* how: whether the answer replaces the page or, by htmx, its body.
Request == [how : {"load", "boost"}, write : BOOLEAN, followed : BOOLEAN,
            cookie : MaybeToken, submitted : MaybeToken]
Answer == [status : {"app", "login", "redirect", "hx_redirect", "row", "forbidden"},
           token : Tokens, sets : BOOLEAN]
Idle == [pc |-> "idle"]

Sent(t) == req[t].pc = "sent"
Answered(t) == req[t].pc = "answered"

\* Tokens that some page, request or answer still holds.
About ==
  {cookie} \cup (UNION {{tab[t].meta, tab[t].form, tab[t].posted} : t \in Tabs})
           \cup {req[t].ask.cookie : t \in {u \in Tabs : req[u].pc # "idle"}}
           \cup {req[t].ask.submitted : t \in {u \in Tabs : req[u].pc # "idle"}}
           \cup {req[t].answer.token : t \in {u \in Tabs : Answered(u)}}

\* randomToken: one that nothing else holds; which one makes no difference.
NewToken == CHOOSE token \in Tokens : token \notin About

\* Mutant: every request is given a new token.
TokenFor_Renewed(ask) == NewToken

\* The token csrfProtect goes by: the cookie's, or a new one.
TokenFor(ask) == IF ask.cookie = None THEN NewToken ELSE ask.cookie

-----------------------------------------------------------------------------
(* The browser. *)

\* Another tab waits for the cookie this one asks for as well.
Races(t) == cookie = None /\ \E u \in Tabs \ {t} : req[u].pc # "idle" /\ req[u].ask.cookie = None

Send(t, how, write, submitted) ==
  /\ req[t] = Idle
  /\ req' = [req EXCEPT ![t] = [pc |-> "sent", ask |->
               [how |-> how, write |-> write, followed |-> FALSE,
                cookie |-> cookie, submitted |-> submitted]]]
  /\ disturbed' = (disturbed \/ Races(t))
  /\ UNCHANGED <<cookie, tab, trouble>>

\* A page is opened by its address, or by a link outside hx-boost.
Visit(t) == Send(t, "load", FALSE, None)

\* The reload button sends a form again whose answer the page is.
Reload(t) ==
  /\ tab[t].page # "blank"
  /\ Send(t, "load", tab[t].posted # None, tab[t].posted)

\* A link under hx-boost.
Follow(t) == tab[t].page = "app" /\ Send(t, "boost", FALSE, None)

\* htmx:configRequest; the header goes before the field.
HeaderToken(t) == tab[t].meta

\* A form, or a delete link, under hx-boost; and a form that htmx leaves alone.
Submit(t) == tab[t].page = "app" /\ Send(t, "boost", TRUE, HeaderToken(t))
SubmitPlain(t) == tab[t].page \in {"app", "login"} /\ Send(t, "load", TRUE, tab[t].form)

Expire ==
  /\ trouble < MaxTrouble /\ cookie # None
  /\ cookie' = None /\ disturbed' = TRUE /\ trouble' = trouble + 1
  /\ UNCHANGED <<tab, req>>

Lose(t) ==
  /\ trouble < MaxTrouble /\ req[t] # Idle
  /\ req' = [req EXCEPT ![t] = Idle] /\ trouble' = trouble + 1
  /\ UNCHANGED <<cookie, tab, disturbed>>

-----------------------------------------------------------------------------
(* The server. *)

\* Behind csrfProtect: a page, the same form again, a redirect, which
\* sessionAuth gives htmx as a header, or what a delete link puts in its row.
\* Of / and /login only one redirects.
Statuses(ask) ==
  {"app", "login"} \cup (IF ask.followed THEN {} ELSE {"redirect"})
                   \cup (IF ask.how = "boost" /\ ~ask.followed THEN {"hx_redirect"} ELSE {})
                   \cup (IF ask.how = "boost" /\ ask.write THEN {"row"} ELSE {})

\* Mutant: the header only, as a page with htmx sends it.
Passes_Header(ask, token) ==
  ~ask.write \/ (ask.how = "boost" /\ ask.submitted = token)

Passes(ask, token) == ~ask.write \/ ask.submitted = token

Serve(t) ==
  /\ Sent(t)
  /\ LET ask == req[t].ask  token == TokenFor(ask) IN
       \E status \in IF Passes(ask, token) THEN Statuses(ask) ELSE {"forbidden"} :
         req' = [req EXCEPT ![t] = [pc |-> "answered", ask |-> ask, answer |->
                   [status |-> status, token |-> token, sets |-> token # ask.cookie]]]
  /\ UNCHANGED <<cookie, tab, disturbed, trouble>>

\* What the tab shows then.  htmx shows nothing of an answer with 403.
Shown(t, ask, answer) ==
  CASE ask.how = "boost" ->
         IF answer.status \in {"forbidden", "row"} THEN tab[t]
         ELSE [tab[t] EXCEPT !.form = answer.token, !.posted = None]
    [] ask.how = "load" /\ answer.status = "forbidden" ->
         [Blank EXCEPT !.page = "refused", !.posted = ask.submitted]
    [] OTHER ->
         [page |-> answer.status, form |-> answer.token, posted |-> ask.submitted,
          meta |-> IF answer.status = "app" THEN answer.token ELSE None]

\* The answer arrives, and a redirect is followed with the cookie there is now.
Arrive(t) ==
  /\ Answered(t)
  /\ LET ask == req[t].ask  answer == req[t].answer
         token == IF answer.sets THEN answer.token ELSE cookie
         onward == answer.status \in {"redirect", "hx_redirect"} IN
       /\ cookie' = token
       /\ IF onward
          THEN /\ req' = [req EXCEPT ![t] = [pc |-> "sent", ask |->
                    [how |-> IF answer.status = "redirect" THEN ask.how ELSE "load",
                     write |-> FALSE, followed |-> TRUE, cookie |-> token,
                     submitted |-> None]]]
               /\ UNCHANGED tab
          ELSE /\ req' = [req EXCEPT ![t] = Idle]
               /\ tab' = [tab EXCEPT ![t] = Shown(t, ask, answer)]
  /\ UNCHANGED <<disturbed, trouble>>

-----------------------------------------------------------------------------
Init ==
  /\ cookie = None
  /\ tab = [t \in Tabs |-> Blank]
  /\ req = [t \in Tabs |-> Idle]
  /\ disturbed = FALSE
  /\ trouble = 0

Try(t) == Submit(t) \/ SubmitPlain(t)

Next ==
  \/ Expire
  \/ \E t \in Tabs : \/ Visit(t) \/ Reload(t) \/ Follow(t) \/ Try(t)
                     \/ Serve(t) \/ Arrive(t) \/ Lose(t)

Spec == Init /\ [][Next]_vars

\* A patient user's requests are answered, and the user tries again, having
\* opened the page anew, or having reloaded it, whatever else is done between.
\* Nothing is assumed of the other tabs.
Answering(t) == WF_vars(Serve(t)) /\ WF_vars(Arrive(t)) /\ SF_vars(Try(t))
VisitSpec == Spec /\ \A t \in Patient : Answering(t) /\ SF_vars(Visit(t))
ReloadSpec == Spec /\ \A t \in Patient : Answering(t) /\ SF_vars(Reload(t))

-----------------------------------------------------------------------------
(* Pages and requests have their shape; a page has a token to write with    *)
(* unless it is a refusal.                                                   *)
TypeOK ==
  /\ cookie \in MaybeToken
  /\ tab \in [Tabs -> Tab]
  /\ \A t \in Tabs :
       /\ tab[t].page \in {"app", "login"} => tab[t].form # None
       /\ tab[t].page = "app" => tab[t].meta # None
       /\ \/ req[t] = Idle
          \/ Sent(t) /\ req[t].ask \in Request
          \/ Answered(t) /\ req[t].ask \in Request /\ req[t].answer \in Answer
       /\ req[t] # Idle /\ req[t].ask.how = "boost" => tab[t].page = "app"
  /\ disturbed \in BOOLEAN
  /\ trouble \in 0..MaxTrouble

Refused(t) == Answered(t) /\ req[t].answer.status = "forbidden"
Passed(t) == Answered(t) /\ req[t].ask.write /\ ~Refused(t)

\* Pages have a token to write with, and no write is refused, however many tabs
\* work side by side, by htmx or without, answers lost or late, as long as the
\* browser got its cookie from one request and has kept it (csrfProtect never
\* renews it).
WritesPass == TypeOK /\ \A t \in Tabs : Refused(t) => disturbed

\* A write from a page that was rendered with the browser's own token is not
\* refused (layout.html: the script sends the token of the page).
OwnTokenPasses ==
  \A t \in Tabs : Refused(t) /\ req[t].ask.how = "boost" =>
    tab[t].form # req[t].ask.cookie

\* A patient user who is refused, and keeps opening the page and trying again,
\* gets through, once the cookie has stopped expiring (csrfProtect's 403).
Recovers == \A t \in Patient : Refused(t) ~> Passed(t)
=============================================================================
