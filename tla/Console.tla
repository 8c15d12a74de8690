------------------------------- MODULE Console -------------------------------
(***************************************************************************)
(* What members of an organisation do to a project on the hosted server    *)
(* while its live traffic goes on: keys, renaming and deletion             *)
(* (server/routes/manage.py), connecting Slack (server/routes/slack_oauth.py), *)
(* their identity (server/deps.py) and the audit trail (server/audit.py).  *)
(* An action is what a handler does between two awaits; its audit row is   *)
(* in the transaction of what it records.                                  *)
(***************************************************************************)
EXTENDS LiveTraffic

CONSTANTS
    Admins,      \* requests of signed-in users, all of one user
    Callbacks,   \* requests of browsers that Slack sends back
    KnownUser    \* whether the user's row exists from the start

Operations == {"rename", "mint", "revoke", "delete", "install", "disconnect", "configure"}

ASSUME ConsoleSettings ==
    \A s \in Settings : s.operations \in [s.admins -> Operations] /\ s.admins \subseteq Admins
                        /\ s.callbacks \subseteq Callbacks
ASSUME UserAssumption == KnownUser \in BOOLEAN

VARIABLES
    admins,     \* what each admin request does next, and what it has read
    callbacks,  \* likewise
    users,      \* whether the user's row exists
    nonces,     \* install states, by the request that made them, to be used once
    minted,     \* keys added
    lastRow,    \* the last SlackConfig inserted
    audit       \* AuditLog, a set: each row names the request it is of

consoleVars == <<admins, callbacks, users, nonces, minted, lastRow, audit>>
vars == <<liveVars, consoleVars>>

AdminPhases == {"context", "user", "read", "commit", "state", "done", "failed"}
CallbackPhases == {"none", "exchange", "lookup", "bind", "done", "refused", "failed"}

TypeOK ==
    /\ LiveTypeOK
    /\ slack = NoConfig \/ (slack.row \in 1 .. lastRow /\ slack.by \in setting.admins)
    /\ \A a \in setting.admins : admins[a].phase \in AdminPhases
    /\ \A c \in Callbacks : callbacks[c].phase \in CallbackPhases
    /\ users \in BOOLEAN
    /\ nonces \subseteq setting.admins
    /\ minted \in Nat /\ lastRow \in Nat
    /\ \A e \in audit :
        /\ e.what \in {"renamed", "minted", "revoked", "deleted", "connected", "disconnected"}
        /\ e.of \in setting.admins \cup Callbacks /\ e.by \in setting.admins
        /\ e.row \in 0 .. lastRow

Init ==
    /\ LiveInit
    /\ admins = [a \in setting.admins |-> [phase |-> "context", saw |-> 0]]
    /\ callbacks = [c \in Callbacks |-> [phase |-> "none", state |-> None, saw |-> 0]]
    /\ users = KnownUser
    /\ nonces = {}
    /\ minted = 0 /\ lastRow = 0
    /\ audit = {}

Op(a) == setting.operations[a]
Ready(a, phase) == a \in setting.admins /\ admins[a].phase = phase
Goes(a, phase) == admins' = [admins EXCEPT ![a].phase = phase]

(* Rows ever inserted below the project. *)
Children == Cardinality(Stored) + Len(drifts) + minted + lastRow
Audited(what, of, by, row) ==
    audit' = audit \cup {[what |-> what, of |-> of, by |-> by, row |-> row]}

LiveUnchanged == UNCHANGED <<setting, now, trafficVars, rows, cronVars>>
-----------------------------------------------------------------------------
(* get_user_ctx: the row of a user who is new is inserted by the request,   *)
(* and an insertion that meets another fails with the request.             *)

LoadUser(a) ==
    /\ Ready(a, "context")
    /\ Goes(a, IF users THEN "read" ELSE "user")
    /\ LiveUnchanged /\ UNCHANGED <<accessVars, callbacks, users, nonces, minted, lastRow, audit>>

InsertUser(a) ==
    /\ Ready(a, "user")
    /\ Goes(a, IF users THEN "failed" ELSE "read")
    /\ users' = TRUE
    /\ LiveUnchanged /\ UNCHANGED <<accessVars, callbacks, nonces, minted, lastRow, audit>>

(* What own_project and the handler select.  There is nothing to do for a  *)
(* key that is revoked, or a configuration that is not there; a deletion   *)
(* loads the children it cascades to.                                      *)
ReadProject(a) ==
    /\ Ready(a, "read")
    /\ admins' = [admins EXCEPT ![a] =
         [phase |-> IF ~project THEN "failed"
                    ELSE IF Op(a) = "install" THEN "state"
                    ELSE IF \/ Op(a) = "revoke" /\ revoked
                            \/ Op(a) = "disconnect" /\ slack = NoConfig THEN "done"
                    ELSE "commit",
          saw |-> IF Op(a) = "delete" THEN Children ELSE slack.row]]
    /\ LiveUnchanged /\ UNCHANGED <<accessVars, callbacks, users, nonces, minted, lastRow, audit>>

(* A statement on a row that is gone fails, and with it the transaction. *)
Rename(a) ==
    /\ Op(a) = "rename"
    /\ IF project THEN Goes(a, "done") /\ Audited("renamed", a, a, 0)
       ELSE Goes(a, "failed") /\ UNCHANGED audit
    /\ UNCHANGED <<accessVars, rows, minted>>

CreateKey(a) ==
    /\ Op(a) = "mint"
    /\ IF project THEN Goes(a, "done") /\ minted' = minted + 1 /\ Audited("minted", a, a, 0)
       ELSE Goes(a, "failed") /\ UNCHANGED <<minted, audit>>
    /\ UNCHANGED <<accessVars, rows>>

RevokeKey(a) ==
    /\ Op(a) = "revoke"
    /\ IF project
       THEN Goes(a, "done") /\ revoked' = TRUE /\ Audited("revoked", a, a, 0)
       ELSE Goes(a, "failed") /\ UNCHANGED <<revoked, audit>>
    /\ UNCHANGED <<project, slack, rows, minted>>

(* A child inserted since the children were loaded violates its foreign    *)
(* key; a project somebody else has deleted is only missed with a warning. *)
DeleteProject(a) ==
    /\ Op(a) = "delete"
    /\ IF project /\ admins[a].saw < Children
       THEN Goes(a, "failed") /\ UNCHANGED <<accessVars, rows, audit>>
       ELSE /\ Goes(a, "done")
            /\ project' = FALSE /\ slack' = NoConfig /\ rows' = <<>>
            /\ Audited("deleted", a, a, 0)
            /\ UNCHANGED revoked
    /\ UNCHANGED minted

(* Mutant of DisconnectSlack: whatever is configured by now is removed. *)
DisconnectAnything(a) ==
    /\ Op(a) = "disconnect"
    /\ Goes(a, "done")
    /\ slack' = NoConfig
    /\ Audited("disconnected", a, a, admins[a].saw)
    /\ UNCHANGED <<project, revoked, rows, minted>>

(* The row that was read is deleted, if it is still there. *)
DisconnectSlack(a) ==
    /\ Op(a) = "disconnect"
    /\ Goes(a, "done")
    /\ slack' = IF slack.row = admins[a].saw THEN NoConfig ELSE slack
    /\ Audited("disconnected", a, a, admins[a].saw)
    /\ UNCHANGED <<project, revoked, rows, minted>>

(* A configuration is updated in the row that was read, which must be      *)
(* there, or inserted in a project, which must have none.                  *)
Binds(saw) == project /\ saw = slack.row

Bind(saw, of, by) ==
    /\ lastRow' = IF saw = 0 THEN lastRow + 1 ELSE lastRow
    /\ slack' = [row |-> IF saw = 0 THEN lastRow' ELSE saw, by |-> by]
    /\ Audited("connected", of, by, slack'.row)

(* A channel and a token given by hand (PUT /v1/projects/{id}/slack). *)
SetSlack(a) ==
    /\ Op(a) = "configure"
    /\ IF Binds(admins[a].saw) THEN Goes(a, "done") /\ Bind(admins[a].saw, a, a)
       ELSE Goes(a, "failed") /\ UNCHANGED <<slack, lastRow, audit>>
    /\ UNCHANGED <<project, revoked, rows, minted>>

Commit(a) ==
    /\ Ready(a, "commit")
    /\ \/ SetSlack(a)
       \/ /\ Rename(a) \/ CreateKey(a) \/ RevokeKey(a) \/ DeleteProject(a) \/ DisconnectSlack(a)
          /\ UNCHANGED lastRow
    /\ UNCHANGED <<setting, now, trafficVars, cronVars, callbacks, users, nonces>>

(* The state of an installation can be used once; it may fail to be kept.  *)
SlackInstall(a) ==
    /\ Ready(a, "state")
    /\ \/ nonces' = nonces \cup {a} /\ Goes(a, "done")
       \/ May("redis") /\ UNCHANGED nonces /\ Goes(a, "failed")
    /\ LiveUnchanged /\ UNCHANGED <<accessVars, callbacks, users, minted, lastRow, audit>>
-----------------------------------------------------------------------------
(* The callback of Slack, for a state some installation has shown. *)

On(c, phase) == callbacks[c].phase = phase
Reply(c, phase) == callbacks' = [callbacks EXCEPT ![c].phase = phase]
AdminsUnchanged == LiveUnchanged /\ UNCHANGED <<project, revoked, admins, users, minted>>

Installs == {a \in setting.admins : Op(a) = "install" /\ Ready(a, "done")}

Used(a) == nonces \ {a}

ConsumeState(c, a) ==
    /\ c \in setting.callbacks /\ On(c, "none") /\ a \in Installs
    /\ callbacks' = [callbacks EXCEPT ![c] =
         [@ EXCEPT !.state = a, !.phase = IF a \in nonces THEN "exchange" ELSE "refused"]]
    /\ nonces' = Used(a)
    /\ AdminsUnchanged /\ UNCHANGED <<slack, lastRow, audit>>

ExpireState(a) ==
    /\ May("console") /\ a \in nonces
    /\ nonces' = nonces \ {a}
    /\ AdminsUnchanged /\ UNCHANGED <<slack, callbacks, lastRow, audit>>

ExchangeCode(c) ==
    /\ On(c, "exchange")
    /\ \/ Reply(c, "lookup")
       \/ May("console") /\ Reply(c, "failed")
    /\ AdminsUnchanged /\ UNCHANGED <<slack, nonces, lastRow, audit>>

FindConfig(c) ==
    /\ On(c, "lookup")
    /\ callbacks' = [callbacks EXCEPT ![c] = [@ EXCEPT !.phase = "bind", !.saw = slack.row]]
    /\ AdminsUnchanged /\ UNCHANGED <<slack, nonces, lastRow, audit>>

BindConfig(c) ==
    /\ On(c, "bind")
    /\ IF Binds(callbacks[c].saw)
       THEN Bind(callbacks[c].saw, c, callbacks[c].state) /\ Reply(c, "done")
       ELSE Reply(c, "failed") /\ UNCHANGED <<slack, lastRow, audit>>
    /\ AdminsUnchanged /\ UNCHANGED nonces

ConsoleNext ==
    \/ \E a \in Admins :
          \/ LoadUser(a) \/ InsertUser(a) \/ ReadProject(a) \/ Commit(a) \/ SlackInstall(a)
          \/ ExpireState(a)
    \/ \E c \in Callbacks :
          \/ \E a \in Admins : ConsumeState(c, a)
          \/ ExchangeCode(c) \/ FindConfig(c) \/ BindConfig(c)

Next ==
    \/ LiveNext /\ UNCHANGED consoleVars
    \/ ConsoleNext

Spec == Init /\ [][Next]_vars
-----------------------------------------------------------------------------
(* Properties. *)

Entries(what) == {e \in audit : e.what = what}

(* A request connects at most once ("the unauthenticated callback accepts  *)
(* each state exactly once", slack_oauth.py:92); what is configured was    *)
(* connected so by somebody, and nobody is said to have disconnected it;   *)
(* and if nothing is configured, each row that ever was is said to be      *)
(* disconnected.                                                           *)
ConnectionTold ==
    /\ \A e, f \in Entries("connected") : e.by = f.by => e = f
    /\ slack # NoConfig =>
          /\ \E e \in Entries("connected") : e.by = slack.by /\ e.row = slack.row
          /\ \A e \in Entries("disconnected") : e.row # slack.row
    /\ slack = NoConfig /\ project =>
          \A e \in Entries("connected") : \E f \in Entries("disconnected") : f.row = e.row

(* The trail tells that a key is revoked and a project deleted, and tells  *)
(* nothing of a request that failed.                                       *)
RevocationTold ==
    /\ revoked <=> Entries("revoked") # {}
    /\ ~project <=> Entries("deleted") # {}
    /\ minted = Cardinality(Entries("minted"))
    /\ \A e \in audit : e.what # "connected" => admins[e.of].phase = "done"

(* The audit trail agrees with the tables, whoever acts at the same time.  *)
AuditAgrees == ConnectionTold /\ RevocationTold

(* "revoking an already-revoked key is still 204, and must NOT write a     *)
(* second audit row" (manage.py:205), "a repeat DELETE must not produce a  *)
(* second audit row" (slack_oauth.py:281): a key is revoked and a          *)
(* configuration disconnected once in the trail.                           *)
AuditedOnce ==
    /\ \A e, f \in Entries("revoked") : e = f
    /\ \A e, f \in Entries("disconnected") : e.row = f.row => e = f
=============================================================================
