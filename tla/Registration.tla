---------------------------- MODULE Registration ----------------------------
(***************************************************************************)
(* The registration form of Controller::Register: validate it, then        *)
(* create the user, the link and the token and redeem the discount code,   *)
(* each in a statement of its own.  The individual and corporate forms do  *)
(* the same without a code.                                                *)
(***************************************************************************)
EXTENDS SignupTables

CONSTANT Forms   \* registration forms that are submitted

VARIABLES
    form,       \* the process handling each of them
    contested,  \* history: codes that two forms in progress carried
    abandoned   \* history: users whose registration died unfinished

formVars == <<form, contested, abandoned>>

FormPC == {"idle", "create", "link", "code", "token", "done"}

FormState == [pc : FormPC, email : Email \cup {None}, subscription : Sub \cup {None},
              text : Text \cup {None}, user : DOMAIN user \cup {NoUser}]

IdleForm == [pc |-> "idle", email |-> None, subscription |-> None,
             text |-> None, user |-> NoUser]

InitForms ==
    /\ form = [f \in Forms |-> IdleForm]
    /\ contested = {} /\ abandoned = {}

Goto(f, pc) == form' = [form EXCEPT ![f].pc = pc]

EndForm(f) == form' = [form EXCEPT ![f] = [IdleForm EXCEPT !.pc = "done"]]

\* The validation rules, then step_1_confirmation begins.
FormSubmit(f, e, s, t) ==
    /\ form[f].pc = "idle"
    /\ ~EmailTaken(e)
    /\ DiscountCodeNotUsed(t)
    /\ form' = [form EXCEPT ![f] = [pc |-> "create", email |-> e,
                  subscription |-> s, text |-> t, user |-> NoUser]]
    /\ contested' = contested \cup
         {k \in CodesReading(t) : \E g \in Forms \ {f} :
             form[g].text = t}
    /\ UNCHANGED <<tables, abandoned>>

FormCreateUser_TokenFirst(f) ==   \* fault: mails the token before the link
    /\ form[f].pc = "create"
    /\ ~EmailTaken(form[f].email)
    /\ user' = Append(user, form[f].email)
    /\ form' = [form EXCEPT ![f].pc = "token", ![f].user = Len(user) + 1]
    /\ UNCHANGED <<link, token, redeemedBy, customer, invoice, contested, abandoned>>

\* The address may have been taken meanwhile: the unique key refuses it.
FormCreateUser(f) ==
    /\ form[f].pc = "create"
    /\ UNCHANGED <<link, token, redeemedBy, customer, invoice, contested, abandoned>>
    /\ IF EmailTaken(form[f].email)
       THEN EndForm(f) /\ UNCHANGED user
       ELSE /\ user' = Append(user, form[f].email)
            /\ form' = [form EXCEPT ![f].pc = "link", ![f].user = Len(user) + 1]

FormCreateLink(f) ==
    /\ form[f].pc = "link"
    /\ link' = [u \in DOMAIN link \cup {form[f].user} |->
                  IF u = form[f].user
                  THEN [subscription |-> form[f].subscription, active |-> FALSE]
                  ELSE link[u]]
    /\ Goto(f, IF form[f].text = None THEN "token" ELSE "code")
    /\ UNCHANGED <<user, token, redeemedBy, customer, invoice, contested, abandoned>>

\* The first code with that text goes to the user, redeemed or not.
FormRedeem(f) ==
    /\ form[f].pc = "code"
    /\ \E k \in CodesReading(form[f].text) :
          redeemedBy' = [redeemedBy EXCEPT ![k] = form[f].user]
    /\ Goto(f, "token")
    /\ UNCHANGED <<user, link, token, customer, invoice, contested, abandoned>>

\* The token is saved and mailed.
FormSendToken(f) ==
    /\ form[f].pc = "token"
    /\ token' = token \cup {form[f].user}
    /\ EndForm(f)
    /\ UNCHANGED <<user, link, redeemedBy, customer, invoice, contested, abandoned>>

FormDie(f) ==
    /\ form[f].pc \notin {"idle", "done"}
    /\ Die
    /\ EndForm(f)
    /\ abandoned' = abandoned \cup ({form[f].user} \ {NoUser})
    /\ UNCHANGED <<tables, contested>>

FormStep(f) ==
    \/ \E e \in Email, s \in Sub, t \in Text \cup {None} : FormSubmit(f, e, s, t)
    \/ FormCreateUser(f)
    \/ FormCreateLink(f)
    \/ FormRedeem(f)
    \/ FormSendToken(f)

FormsOK ==
    /\ form \in [Forms -> FormState]
    /\ contested \subseteq Code
    /\ abandoned \subseteq DOMAIN user

=============================================================================
