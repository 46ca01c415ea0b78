--------------------------- MODULE PasswordTokens ---------------------------
(***************************************************************************)
(* Setting a password through a mailed token (send_set_user_psw_email in   *)
(* Helpers/Admin/UserDetails.pm, called for forgotten passwords, by the    *)
(* administrator and for new users, and set_user_password in               *)
(* Controller/Visitor.pm).  A token is drawn at random for one mail, so it *)
(* is named by the request that mails it.                                  *)
(***************************************************************************)
EXTENDS Naturals, Functions

CONSTANTS
    TokenUser,      \* users
    TokenRequests,  \* each is one submitted request and its process
    MaxTokenDeaths  \* bound: processes that die

ASSUME TokensAssumption == MaxTokenDeaths \in Nat

VARIABLES
    pswToken,      \* the table: user -> the token, for the users who have a row
    tokenRequest,  \* the progress of each request
    newest,        \* history: the token saved last, by user
    mailed,        \* history: tokens that were sent
    uses,          \* history: how many passwords were set with each token
    entwined,      \* history: tokens in two submissions at once, or in one that died
    hurried,       \* history: tokens saved while a submission for the user was on
    tokenDeaths    \* history: processes that died

tokenVars == <<pswToken, tokenRequest, newest, mailed, uses, entwined, hurried,
               tokenDeaths>>

Idle == [at |-> "unsent"]
Looking == [at : {"lookup"}, user : TokenUser]
Saving == [at : {"save"}, user : TokenUser, found : BOOLEAN]
Mailing == [at : {"mail"}]
Submitting == [at : {"password", "remove"}, user : TokenUser, token : TokenRequests]
Finished == [at |-> "done"]

TokenProgress ==
    {Idle, Finished} \cup Looking \cup Saving \cup Mailing \cup Submitting

TokensOK ==
    /\ DOMAIN pswToken \in SUBSET TokenUser
    /\ \A u \in DOMAIN pswToken : pswToken[u] \in TokenRequests
    /\ tokenRequest \in [TokenRequests -> TokenProgress]
    /\ DOMAIN newest \in SUBSET TokenUser
    /\ \A u \in DOMAIN newest : newest[u] \in TokenRequests
    /\ mailed \in SUBSET TokenRequests
    /\ uses \in [TokenRequests -> Nat]
    /\ entwined \in SUBSET TokenRequests
    /\ hurried \in SUBSET TokenRequests
    /\ tokenDeaths \in 0 .. MaxTokenDeaths

InitTokens ==
    /\ pswToken = <<>>
    /\ tokenRequest = [r \in TokenRequests |-> Idle]
    /\ newest = <<>>
    /\ mailed = {}
    /\ uses = [t \in TokenRequests |-> 0]
    /\ entwined = {}
    /\ hurried = {}
    /\ tokenDeaths = 0

Stage(r) == tokenRequest[r].at

Becomes(r, progress) == tokenRequest' = [tokenRequest EXCEPT ![r] = progress]

\* Submissions that hold a user's row.
Submissions(u) ==
    {r \in TokenRequests : Stage(r) \in {"password", "remove"} /\ tokenRequest[r].user = u}

With(table, u, t) ==
    [v \in DOMAIN table \cup {u} |-> IF v = u THEN t ELSE table[v]]

AskForMail(r) ==
    /\ Stage(r) = "unsent"
    /\ \E u \in TokenUser : Becomes(r, [at |-> "lookup", user |-> u])
    /\ UNCHANGED <<pswToken, newest, mailed, uses, entwined, hurried, tokenDeaths>>

FindRow(r) ==
    LET u == tokenRequest[r].user IN
    /\ Stage(r) = "lookup"
    /\ Becomes(r, [at |-> "save", user |-> u, found |-> u \in DOMAIN pswToken])
    /\ UNCHANGED <<pswToken, newest, mailed, uses, entwined, hurried, tokenDeaths>>

\* update() throws if the row is gone, create() if there is one; what is thrown
\* is caught, and no mail is sent.
SaveToken(r) ==
    LET u == tokenRequest[r].user IN
    /\ Stage(r) = "save"
    /\ \/ /\ tokenRequest[r].found <=> u \in DOMAIN pswToken
          /\ pswToken' = With(pswToken, u, r)
          /\ newest' = With(newest, u, r)
          /\ hurried' = IF Submissions(u) = {} THEN hurried ELSE hurried \cup {r}
          /\ Becomes(r, [at |-> "mail"])
       \/ /\ Becomes(r, Finished)
          /\ UNCHANGED <<pswToken, newest, hurried>>
    /\ UNCHANGED <<mailed, uses, entwined, tokenDeaths>>

\* sendmail may fail; nobody looks.
MailToken(r) ==
    /\ Stage(r) = "mail"
    /\ Becomes(r, Finished)
    /\ mailed' \in {mailed, mailed \cup {r}}
    /\ UNCHANGED <<pswToken, newest, uses, entwined, hurried, tokenDeaths>>

\* fault: a form that only shows the password fields already spends the token.
SubmitPassword_Spends(r) ==
    /\ Stage(r) = "unsent"
    /\ \E t \in mailed, u \in DOMAIN pswToken :
          /\ pswToken[u] = t
          /\ \/ Becomes(r, [at |-> "password", user |-> u, token |-> t])
             \/ Becomes(r, [at |-> "remove", user |-> u, token |-> t])
    /\ UNCHANGED <<pswToken, newest, mailed, uses, entwined, hurried, tokenDeaths>>

\* The form with the token of a mail and a password typed twice the same; with
\* anything else, or a token no row has, nothing is changed.
SubmitPassword(r) ==
    /\ Stage(r) = "unsent"
    /\ \E t \in mailed, u \in DOMAIN pswToken :
          /\ pswToken[u] = t
          /\ Becomes(r, [at |-> "password", user |-> u, token |-> t])
          /\ entwined' = IF \E s \in Submissions(u) : tokenRequest[s].token = t
                         THEN entwined \cup {t} ELSE entwined
    /\ UNCHANGED <<pswToken, newest, mailed, uses, hurried, tokenDeaths>>

SetPassword(r) ==
    /\ Stage(r) = "password"
    /\ uses' = [uses EXCEPT ![tokenRequest[r].token] = @ + 1]
    /\ Becomes(r, [tokenRequest[r] EXCEPT !.at = "remove"])
    /\ UNCHANGED <<pswToken, newest, mailed, entwined, hurried, tokenDeaths>>

\* fault: the token stays after the password was set.
RemoveToken_Forgotten(r) ==
    /\ Stage(r) = "remove"
    /\ Becomes(r, Finished)
    /\ UNCHANGED <<pswToken, newest, mailed, uses, entwined, hurried, tokenDeaths>>

\* The row is deleted by its key, the user, whatever token it has by now.
RemoveToken(r) ==
    /\ Stage(r) = "remove"
    /\ pswToken' = Restrict(pswToken, DOMAIN pswToken \ {tokenRequest[r].user})
    /\ Becomes(r, Finished)
    /\ UNCHANGED <<newest, mailed, uses, entwined, hurried, tokenDeaths>>

TokenDie(r) ==
    /\ Stage(r) \notin {"unsent", "done"}
    /\ tokenDeaths < MaxTokenDeaths
    /\ tokenDeaths' = tokenDeaths + 1
    /\ entwined' = IF Stage(r) = "remove" THEN entwined \cup {tokenRequest[r].token}
                   ELSE entwined
    /\ Becomes(r, Finished)
    /\ UNCHANGED <<pswToken, newest, mailed, uses, hurried>>

TokenStep(r) ==
    \/ AskForMail(r)     \/ FindRow(r)     \/ SaveToken(r)   \/ MailToken(r)
    \/ SubmitPassword(r) \/ SetPassword(r) \/ RemoveToken(r)
    \/ TokenDie(r)

-----------------------------------------------------------------------------
\* A token sets one password: unless it was submitted again before the first
\* submission was finished, or that one died with the row still there.
TokenSetsOnce == \A t \in TokenRequests : uses[t] <= 1 \/ t \in entwined

\* The last token saved for a user works once it is mailed, however many mails
\* were asked for at once and whichever of them failed: until it was used, or
\* unless a submission was under way when it was saved, which then deletes the
\* row of the newer token with its own.
NewestTokenWorks ==
    \A u \in DOMAIN newest :
        newest[u] \in mailed =>
            \/ u \in DOMAIN pswToken /\ pswToken[u] = newest[u]
            \/ uses[newest[u]] > 0
            \/ newest[u] \in hurried

-----------------------------------------------------------------------------
\* The invariant that TokenSetsOnce and NewestTokenWorks follow from.
Submitted(r) == Stage(r) \in {"password", "remove"}

\* A token belongs to one user from the time it is saved, and nothing has it before.
OwnedBy(t, u) ==
    \/ u \in DOMAIN pswToken /\ pswToken[u] = t
    \/ \E s \in TokenRequests :
          Submitted(s) /\ tokenRequest[s].token = t /\ tokenRequest[s].user = u

OwnersInv ==
    \A t \in TokenRequests :
        /\ \A u, v \in TokenUser : OwnedBy(t, u) /\ OwnedBy(t, v) => u = v
        /\ Stage(t) \notin {"mail", "done"} =>
              uses[t] = 0 /\ t \notin mailed /\ \A u \in TokenUser : ~OwnedBy(t, u)

\* The row of a user is the token saved last, and whoever submits an older one
\* began before that was saved.
RowsInv ==
    /\ \A u \in DOMAIN pswToken : u \in DOMAIN newest /\ pswToken[u] = newest[u]
    /\ \A r \in TokenRequests : Submitted(r) =>
          LET u == tokenRequest[r].user IN
          /\ u \in DOMAIN newest
          /\ tokenRequest[r].token = newest[u] \/ newest[u] \in hurried
          /\ Stage(r) = "remove" => uses[tokenRequest[r].token] > 0
    /\ \A u \in DOMAIN newest :
          \/ u \in DOMAIN pswToken /\ pswToken[u] = newest[u]
          \/ uses[newest[u]] > 0
          \/ newest[u] \in hurried

\* A token that was not entwined is in one submission at most, and once it was
\* used that submission is about to delete its row, or the row is gone.
SpentInv ==
    \A t \in TokenRequests \ entwined :
        /\ \A r, s \in TokenRequests :
              /\ Submitted(r) /\ tokenRequest[r].token = t
              /\ Submitted(s) /\ tokenRequest[s].token = t
              => r = s
        /\ uses[t] = 0 \/ uses[t] = 1
        /\ uses[t] = 1 =>
              /\ \A r \in TokenRequests :
                    Submitted(r) /\ tokenRequest[r].token = t => Stage(r) = "remove"
              /\ \/ \A u \in DOMAIN pswToken : pswToken[u] # t
                 \/ \E r \in TokenRequests :
                       Stage(r) = "remove" /\ tokenRequest[r].token = t

TokensInv == OwnersInv /\ RowsInv /\ SpentInv

=============================================================================
