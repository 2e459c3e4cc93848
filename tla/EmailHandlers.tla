---------------------------- MODULE EmailHandlers ---------------------------
(***************************************************************************)
(* The request handlers of internal/web/email.go: saving an address and    *)
(* mailing its confirmation link, following that link, asking for a        *)
(* password-reset link, and resetting the password with it.  Outgoing mail *)
(* is taken to be configured; without it these endpoints change nothing.   *)
(* A message may be lost.  Only who received a link follows it.            *)
(***************************************************************************)
EXTENDS AuthHandlers

(* saveEmail.  The address on file is read, written, and a link mailed. *)

EmailRead(r) ==
  /\ At(r, "email_read")
  /\ LET me == req[r].id IN
       \E addr \in Addrs :
         IF me \in Live /\ ~(users[me].email = addr /\ users[me].verified)
         THEN Goto(r, [req[r] EXCEPT !.pc = "email_update", !.addr = addr])
         ELSE Done(r)
  /\ UNCHANGED storeVars

EmailUpdate(r) ==
  /\ At(r, "email_update")
  /\ LET me == req[r].id
         addr == req[r].addr
     IN IF me \in Live /\ AddrTaken(addr, me)
        THEN UNCHANGED users /\ Done(r)
        ELSE /\ SetEmail(me, addr)
             /\ Goto(r, [req[r] EXCEPT !.pc = "email_issue"])
  /\ UNCHANGED <<sessions, links, issued, lapsed, mailedTo, proven, inherited, spent>>

\* issueEmailToken, then send: the INSERT needs the user to exist, else the
\* transaction rolls back.
IssueAndSend(r, purpose) ==
  /\ \/ /\ req[r].id \in Live
        /\ \E l \in Links : /\ IssueLink(l, req[r].id, purpose, req[r].addr)
                            /\ Send(l, req[r].addr)
     \/ req[r].id \notin Live /\ UNCHANGED <<links, issued, mailedTo>>
  /\ Done(r)
  /\ UNCHANGED <<users, sessions, lapsed, proven, inherited, spent>>

EmailIssue(r) == At(r, "email_issue") /\ IssueAndSend(r, "verify")

-----------------------------------------------------------------------------
(* verifyEmail.  The link is consumed before the address is marked. *)

\* lookupEmailToken: the row of that link and purpose, joined to its user,
\* not expired, presented by whoever the link was delivered to.
Presented(l, purpose) ==
  mailedTo[l] # None /\ HasLink(l, purpose) /\ InForce(l)

VerifyLookup(r, l) ==
  /\ "verify" \in Traffic
  /\ At(r, "idle")
  /\ Presented(l, "verify")
  /\ Goto(r, [Idle EXCEPT !.pc = "verify_consume", !.id = links[l].user,
                          !.addr = links[l].addr, !.link = l])
  /\ proven' = proven \cup {<<links[l].user, mailedTo[l]>>}
  /\ UNCHANGED <<tables, issued, lapsed, mailedTo, inherited, spent>>

VerifyConsume(r) ==
  /\ At(r, "verify_consume")
  /\ DeleteLink(req[r].link)
  /\ Goto(r, [req[r] EXCEPT !.pc = "verify_mark", !.link = None])
  /\ UNCHANGED <<users, sessions, issued, lapsed, mailedTo, proven, inherited, spent>>

VerifyMark(r) ==
  /\ At(r, "verify_mark")
  /\ MarkVerified(req[r].id, req[r].addr)
  /\ Done(r)
  /\ UNCHANGED <<sessions, links, issued, lapsed, mailedTo, proven, inherited, spent>>

-----------------------------------------------------------------------------
(* forgotPasswordPost. *)

\* Mutant: the address need not be verified.
ForgotLookup_Unverified(r, addr) ==
  /\ "forgot" \in Traffic
  /\ At(r, "idle")
  /\ \E i \in Live :
       /\ users[i].email = addr
       /\ Goto(r, [Idle EXCEPT !.pc = "reset_issue", !.id = i, !.addr = addr])
  /\ UNCHANGED storeVars

ForgotLookup(r, addr) ==
  /\ "forgot" \in Traffic
  /\ At(r, "idle")
  /\ \E i \in Live :
       /\ users[i].email = addr /\ users[i].verified
       /\ Goto(r, [Idle EXCEPT !.pc = "reset_issue", !.id = i, !.addr = addr])
  /\ UNCHANGED storeVars

ResetIssue(r) == At(r, "reset_issue") /\ IssueAndSend(r, "reset")

-----------------------------------------------------------------------------
(* resetPasswordPost.  The link is looked up, the password stored, the link *)
(* consumed, the sessions signed out: four statements.                      *)

\* Mutant: the link is consumed when it is looked up, as verifyEmail does.
ResetLookup_Consume(r, l) ==
  /\ "reset" \in Traffic
  /\ At(r, "idle")
  /\ Presented(l, "reset")
  /\ DeleteLink(l)
  /\ Goto(r, [Idle EXCEPT !.pc = "reset_store", !.id = links[l].user,
                          !.link = l])
  /\ UNCHANGED <<users, sessions, issued, lapsed, mailedTo, proven, inherited, spent>>

ResetLookup(r, l) ==
  /\ "reset" \in Traffic
  /\ At(r, "idle")
  /\ Presented(l, "reset")
  /\ Goto(r, [Idle EXCEPT !.pc = "reset_store", !.id = links[l].user,
                          !.link = l])
  /\ UNCHANGED storeVars

ResetStore(r) ==
  /\ At(r, "reset_store")
  /\ \E pw \in Passwords : SetPassword(req[r].id, pw)
  /\ spent' = IF req[r].id \in Live THEN spent \cup {req[r].link} ELSE spent
  /\ Goto(r, [req[r] EXCEPT !.pc = "reset_consume"])
  /\ UNCHANGED <<sessions, links, issued, lapsed, mailedTo, proven, inherited>>

\* Mutant: the link is left in place.
ResetConsume_Keep(r) ==
  /\ At(r, "reset_consume")
  /\ Goto(r, [req[r] EXCEPT !.pc = "reset_signout", !.link = None])
  /\ UNCHANGED storeVars

ResetConsume(r) ==
  /\ At(r, "reset_consume")
  /\ DeleteLink(req[r].link)
  /\ Goto(r, [req[r] EXCEPT !.pc = "reset_signout", !.link = None])
  /\ UNCHANGED <<users, sessions, issued, lapsed, mailedTo, proven, inherited, spent>>

\* Mutant: only a new session is withheld, the old ones stay.
ResetSignout_Keep(r) ==
  /\ At(r, "reset_signout")
  /\ Done(r)
  /\ UNCHANGED storeVars

ResetSignout(r) ==
  /\ At(r, "reset_signout")
  /\ DeleteSessionsOf(req[r].id)
  /\ Done(r)
  /\ UNCHANGED <<users, links, issued, lapsed, mailedTo, proven, inherited, spent>>

EmailNext ==
  \E r \in Reqs :
    \/ EmailRead(r) \/ EmailUpdate(r) \/ EmailIssue(r)
    \/ VerifyConsume(r) \/ VerifyMark(r)
    \/ ResetIssue(r)
    \/ ResetStore(r) \/ ResetConsume(r) \/ ResetSignout(r)
    \/ \E l \in Links : VerifyLookup(r, l) \/ ResetLookup(r, l)
    \/ \E addr \in Addrs : ForgotLookup(r, addr)
=============================================================================
