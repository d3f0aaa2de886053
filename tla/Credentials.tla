----------------------------- MODULE Credentials -----------------------------
(***************************************************************************)
(* The sign-in of an account: src/server/services/credential-service.ts,   *)
(* and the dashboard's two actions on it (credential-actions.ts).  A       *)
(* password is the number of its issue; the customer looks at it in        *)
(* browser tabs, each of which shows what it loaded last.                  *)
(***************************************************************************)
EXTENDS Integers

CONSTANTS
    Accounts,
    Tabs,           \* the customer's browser tabs
    RepliesLost,    \* whether the answer to a re-issue may be lost
    MaxReissues     \* bound on re-issues

ASSUME CredentialAssumption == RepliesLost \in BOOLEAN /\ MaxReissues \in Nat

VARIABLES
    cred,   \* PlatformCredential rows: current password, acknowledged or not
    shown,  \* the password each tab shows, 0 for none
    known   \* passwords the customer has been shown

credVars == <<cred, shown, known>>

CredInit ==
    /\ cred = [a \in Accounts |-> [pw |-> 0, acked |-> FALSE]]
    /\ shown = [t \in Tabs |-> [a \in Accounts |-> 0]]
    /\ known = [a \in Accounts |-> {}]

\* issueCredential: an account that has credentials keeps them.
IssueCredential(a) ==
    /\ cred' = [cred EXCEPT ![a] =
                   IF @.pw = 0 THEN [pw |-> 1, acked |-> FALSE] ELSE @]
    /\ UNCHANGED <<shown, known>>

Show(t, a, pw) ==
    /\ shown' = [shown EXCEPT ![t][a] = pw]
    /\ known' = [known EXCEPT ![a] = @ \union ({pw} \ {0})]

\* getCredentialForUser: readable until it is acknowledged.
ViewCredential(t, a) ==
    /\ cred[a].pw # 0
    /\ shown[t][a] # (IF cred[a].acked THEN 0 ELSE cred[a].pw)
    /\ Show(t, a, IF cred[a].acked THEN 0 ELSE cred[a].pw)
    /\ UNCHANGED cred

\* acknowledgeCredential, sent from a tab that shows a password.
Acknowledge(t, a) ==
    /\ shown[t][a] # 0
    /\ cred' = [cred EXCEPT ![a].acked = TRUE]
    /\ shown' = [shown EXCEPT ![t][a] = 0]
    /\ UNCHANGED known

\* Faulty variant: the new password counts as acknowledged like the old one.
ReissueAcknowledged(t, a) ==
    /\ cred[a].pw \in 1 .. MaxReissues
    /\ cred' = [cred EXCEPT ![a].pw = @ + 1]
    /\ UNCHANGED <<shown, known>>

\* reissueCredential: the old password stops working, the new one is shown.
Reissue(t, a) ==
    /\ cred[a].pw \in 1 .. MaxReissues
    /\ cred' = [cred EXCEPT ![a] = [pw |-> @.pw + 1, acked |-> FALSE]]
    /\ \/ Show(t, a, cred[a].pw + 1)
       \/ RepliesLost /\ UNCHANGED <<shown, known>>

CredentialStep(t, a) == ViewCredential(t, a) \/ Acknowledge(t, a) \/ Reissue(t, a)

-----------------------------------------------------------------------------
(* Properties.                                                             *)

\* Every row and tab has its declared shape.
CredTypeOK ==
    /\ cred \in [Accounts -> [pw : 0 .. MaxReissues + 1, acked : BOOLEAN]]
    /\ shown \in [Tabs -> [Accounts -> 0 .. MaxReissues + 1]]
    /\ known \in [Accounts -> SUBSET (1 .. MaxReissues + 1)]

\* The current password is destroyed only when the customer has seen it.  True
\* of one tab that receives its answers; two tabs, or a lost answer to a
\* re-issue, acknowledge a password nobody has read.
AcknowledgedWasSeen ==
    \A a \in Accounts : cred[a].acked => cred[a].pw \in known[a]

=============================================================================
