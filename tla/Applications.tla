---------------------------- MODULE Applications ----------------------------
(***************************************************************************)
(* Applications and their purchases, from                                  *)
(* src/libraries/chain/sophiatx_evaluator.cpp: application_create,         *)
(* application_update, application_delete, buy_application and             *)
(* cancel_application_buying.  An application_object is found by its       *)
(* unique name or by its id; ids are handed out in creation order and      *)
(* never reused.  url and metadata are left out.  The existing accounts   *)
(* are read here and written by AccountCreation, with which the module is  *)
(* composed in AccountsApplications.                                      *)
(* The accounts that sign an operation exist, since their authorities are *)
(* looked up before evaluation; the other names are any AccountNames.     *)
(***************************************************************************)
EXTENDS Naturals, TLC

CONSTANTS
    AccountNames,   \* every account name an operation may carry
    Names,          \* application names (model values)
    PriceParams,    \* application_price_param values
    MaxApps         \* bound on the number of applications ever created

VARIABLES
    accounts,   \* the existing accounts, read only: AccountCreation writes them
    app,        \* id -> [name, author, price_param], live applications
    next_id,    \* id the next application_object gets
    buying      \* set of application_buying_objects [buyer, app_id]

vars == <<app, next_id, buying>>

Ids == 0..MaxApps - 1

Init ==
    /\ app = [i \in {} |-> [name |-> CHOOSE n \in Names : TRUE]]
    /\ next_id = 0
    /\ buying = {}

\* database::get_application: the live application with that name.
NameUsed(name) == \E i \in DOMAIN app : app[i].name = name
IdOf(name) == CHOOSE i \in DOMAIN app : app[i].name = name

\* application_create_evaluator::do_apply (the by_name index is unique).
ApplicationCreate(author, name, price_param) ==
    /\ author \in accounts
    /\ next_id < MaxApps
    /\ ~NameUsed(name)
    /\ app' = app @@ (next_id :> [name |-> name, author |-> author, price_param |-> price_param])
    /\ next_id' = next_id + 1
    /\ UNCHANGED buying

\* Mutant: the new author is not looked up (get_account dropped).
ApplicationUpdate_NoNewAuthorCheck(name, author, new_author, price_param) ==
    /\ NameUsed(name)
    /\ app[IdOf(name)].author = author
    /\ app' = [app EXCEPT ![IdOf(name)].author = new_author,
                          ![IdOf(name)].price_param = price_param]
    /\ UNCHANGED <<next_id, buying>>

\* application_update_evaluator::do_apply: the new author must be an
\* existing account and the provided author the recorded one; the author
\* and the price are replaced when given.
ApplicationUpdate(name, author, new_author, price_param) ==
    /\ NameUsed(name)
    /\ new_author \in accounts
    /\ app[IdOf(name)].author = author
    /\ app' = [app EXCEPT ![IdOf(name)].author = new_author,
                          ![IdOf(name)].price_param = price_param]
    /\ UNCHANGED <<next_id, buying>>

\* Mutant: the purchases of a deleted application are left behind.
ApplicationDelete_NoCascade(name, author) ==
    /\ NameUsed(name)
    /\ app[IdOf(name)].author = author
    /\ app' = [i \in DOMAIN app \ {IdOf(name)} |-> app[i]]
    /\ UNCHANGED <<next_id, buying>>

\* application_delete_evaluator::do_apply: the author deletes the
\* application together with every purchase of it.
ApplicationDelete(name, author) ==
    /\ NameUsed(name)
    /\ app[IdOf(name)].author = author
    /\ buying' = {b \in buying : b.app_id # IdOf(name)}
    /\ app' = [i \in DOMAIN app \ {IdOf(name)} |-> app[i]]
    /\ UNCHANGED next_id

\* Mutant: the application is not looked up (get_application_by_id dropped).
BuyApplication_NoAppCheck(buyer, id) ==
    /\ [buyer |-> buyer, app_id |-> id] \notin buying
    /\ buying' = buying \cup {[buyer |-> buyer, app_id |-> id]}
    /\ UNCHANGED <<app, next_id>>

\* buy_application_evaluator::do_apply: one purchase per buyer and app.
BuyApplication(buyer, id) ==
    /\ id \in DOMAIN app
    /\ [buyer |-> buyer, app_id |-> id] \notin buying
    /\ buying' = buying \cup {[buyer |-> buyer, app_id |-> id]}
    /\ UNCHANGED <<app, next_id>>

\* cancel_application_buying_evaluator::do_apply: the application's author
\* removes a buyer's purchase.
CancelApplicationBuying(app_owner, buyer, id) ==
    /\ id \in DOMAIN app
    /\ [buyer |-> buyer, app_id |-> id] \in buying
    /\ app[id].author = app_owner
    /\ buying' = buying \ {[buyer |-> buyer, app_id |-> id]}
    /\ UNCHANGED <<app, next_id>>

Next ==
    \/ \E a \in accounts, n \in Names, p \in PriceParams : ApplicationCreate(a, n, p)
    \/ \E n \in Names, a \in accounts, na \in AccountNames, p \in PriceParams :
          ApplicationUpdate(n, a, na, p)
    \/ \E n \in Names, a \in accounts : ApplicationDelete(n, a)
    \/ \E b \in accounts, i \in Ids : BuyApplication(b, i)
    \/ \E o, b \in accounts, i \in Ids : CancelApplicationBuying(o, b, i)

Spec == Init /\ [][Next]_vars

-----------------------------------------------------------------------------
(***************************************************************************)
(* Properties                                                              *)
(***************************************************************************)

TypeOK ==
    /\ DOMAIN app \subseteq 0..next_id - 1
    /\ \A i \in DOMAIN app : app[i] \in [name : Names, author : AccountNames, price_param : PriceParams]
    /\ next_id \in 0..MaxApps
    /\ buying \subseteq [buyer : AccountNames, app_id : 0..next_id - 1]

\* Every purchase belongs to a live application, and so to the one it was
\* bought from: deleting an application removes its purchases, and a new
\* application under the same name gets a fresh id, so after any sequence
\* of creations, deletions, re-creations and purchases no purchase points
\* to a deleted or to a different application.
BuyingOfLiveApplication ==
    \A b \in buying : b.app_id \in DOMAIN app

\* Every live application's author is an existing account: application_create
\* looks the author up and application_update looks the new author up, so
\* however authorship moves between accounts, created at any time, no
\* application is left to a name that has no account.
AuthorsExist ==
    \A i \in DOMAIN app : app[i].author \in accounts
====
