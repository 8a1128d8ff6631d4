--------------------------- MODULE AccountRecovery ---------------------------
(***************************************************************************)
(* Owner authorities and the two-phase account recovery, from              *)
(* src/libraries/chain/sophiatx_evaluator.cpp: account_update (its owner   *)
(* part), account_delete, request_account_recovery, recover_account and    *)
(* change_recovery_account.  database::update_owner_authority and the      *)
(* per-block account_recovery_processing are outside src/ and modelled     *)
(* from the spec.  Authorities are model values; the signature check that  *)
(* runs before an evaluator is reduced to whether an authority can sign.   *)
(* Recoverable are the accounts whose owner authority the model tracks;    *)
(* the other accounts only act as recovery partners.                       *)
(***************************************************************************)
EXTENDS Integers, TLC

CONSTANTS
    Accounts,                   \* account names (model values)
    Recoverable,                \* accounts whose owner authority is tracked
    NoAccount,                  \* the empty account name
    TopWitness,                 \* owner of the top-voted witness
    InitRecovery,               \* account -> recovery_account at genesis
    Auths,                      \* owner authorities someone can satisfy
    OpenAuth,                   \* an authority with weight_threshold 0
    ImpossibleAuth,             \* an authority whose weights cannot reach its threshold
    DeletedAuth,                \* authority(1, public_key_type(), 1) of account_delete
    OWNER_UPDATE_LIMIT,         \* SOPHIATX_OWNER_UPDATE_LIMIT
    EXPIRATION_PERIOD,          \* SOPHIATX_ACCOUNT_RECOVERY_REQUEST_EXPIRATION_PERIOD
    RECOVERY_PERIOD,            \* SOPHIATX_OWNER_AUTH_RECOVERY_PERIOD
    MaxTime                     \* last head block time explored

ASSUME /\ Recoverable \subseteq Accounts /\ TopWitness \in Accounts
       /\ InitRecovery \in [Recoverable -> Accounts \cup {NoAccount}]
       /\ {OpenAuth, ImpossibleAuth, DeletedAuth} \cap Auths = {}

VARIABLES
    now,                    \* head_block_time()
    owner,                  \* account -> owner authority
    last_owner_update,      \* account -> time of the last owner change
    last_account_recovery,  \* account -> time of the last recovery
    owner_history,          \* set of owner_authority_history_objects
    recovery_account,       \* account -> its recovery partner, or NoAccount
    recovery_request,       \* account -> pending account_recovery_request_object
    change_request,         \* account -> pending change_recovery_account_request_object
    \* History variables, read by the properties only:
    last_owned,             \* account -> authority -> last time it was the owner
    change_requested_at     \* account -> time of its last change_recovery_account

vars == <<now, owner, last_owner_update, last_account_recovery, owner_history,
          recovery_account, recovery_request, change_request, last_owned, change_requested_at>>

AllAuths == Auths \cup {OpenAuth, ImpossibleAuth, DeletedAuth}
Times == 0..MaxTime

\* time_point_sec::min(): long before any block of the model.
Never == -(OWNER_UPDATE_LIMIT + RECOVERY_PERIOD + 1)

Init ==
    /\ now = 0
    /\ owner \in [Recoverable -> Auths]
    /\ last_owner_update = [a \in Recoverable |-> Never]
    /\ last_account_recovery = [a \in Recoverable |-> Never]
    /\ owner_history = {}
    /\ recovery_account = InitRecovery
    /\ recovery_request = [a \in {} |-> [new_owner_authority |-> OpenAuth, expires |-> 0]]
    /\ change_request = [a \in {} |-> [recovery_account |-> NoAccount, effective_on |-> 0]]
    /\ last_owned = [a \in Recoverable |-> [x \in AllAuths |-> Never]]
    /\ change_requested_at = [a \in Recoverable |-> Never]

\* The signature check: an authority is satisfied by someone's keys unless
\* no key can reach its threshold or its only key is the null key.
Signable(auth) == auth \in Auths \cup {OpenAuth}

\* The owner authority is required: account_update_operation requires it
\* when it sets an owner (get_required_owner_authorities), and so does
\* change_recovery_account; account_delete, whose operation is not
\* declared under src/, is taken to need it too.
OwnerSigned(a) == Signable(owner[a])

(***************************************************************************)
(* database::update_owner_authority: the current owner authority goes to   *)
(* the history with the time it stopped being valid; the new one is        *)
(* installed and last_owner_update stamped.                                *)
(***************************************************************************)
UpdateOwnerAuthority(a, auth) ==
    /\ owner_history' = owner_history \cup
          {[account |-> a, previous_owner_authority |-> owner[a], last_valid_time |-> now]}
    /\ owner' = [owner EXCEPT ![a] = auth]
    /\ last_owner_update' = [last_owner_update EXCEPT ![a] = now]
    /\ last_owned' = [last_owned EXCEPT ![a][owner[a]] = now]

\* The owner update rate limit (account_update line 295, account_delete line 340).
OwnerUpdateAllowed(a) == now - last_owner_update[a] > OWNER_UPDATE_LIMIT

\* account_update_evaluator::do_apply with an owner authority, signed by
\* the current owner.
AccountUpdate(a, auth) ==
    /\ OwnerSigned(a)
    /\ OwnerUpdateAllowed(a)
    /\ UpdateOwnerAuthority(a, auth)
    /\ UNCHANGED <<now, last_account_recovery, recovery_account, recovery_request,
                   change_request, change_requested_at>>

\* account_delete_evaluator::do_apply: the owner authority becomes one only
\* the null key satisfies.
AccountDelete(a) ==
    /\ OwnerSigned(a)
    /\ OwnerUpdateAllowed(a)
    /\ UpdateOwnerAuthority(a, DeletedAuth)
    /\ UNCHANGED <<now, last_account_recovery, recovery_account, recovery_request,
                   change_request, change_requested_at>>

\* Mutant: a changed request may carry an impossible authority.
RequestAccountRecovery_ImpossibleChange(partner, a, auth) ==
    /\ IF recovery_account[a] # NoAccount
         THEN recovery_account[a] = partner
         ELSE TopWitness = partner
    /\ IF a \notin DOMAIN recovery_request
         THEN /\ auth # ImpossibleAuth
              /\ auth # OpenAuth
              /\ recovery_request' = recovery_request @@
                    (a :> [new_owner_authority |-> auth, expires |-> now + EXPIRATION_PERIOD])
         ELSE IF auth = OpenAuth
         THEN recovery_request' = [x \in DOMAIN recovery_request \ {a} |-> recovery_request[x]]
         ELSE recovery_request' = [recovery_request EXCEPT
                    ![a] = [new_owner_authority |-> auth, expires |-> now + EXPIRATION_PERIOD]]
    /\ UNCHANGED <<now, owner, last_owner_update, last_account_recovery, owner_history,
                   recovery_account, change_request, last_owned, change_requested_at>>

(***************************************************************************)
(* request_account_recovery_evaluator::do_apply, signed by 'partner': the  *)
(* partner must be the account's recovery account, or the top witness when *)
(* it has none.  Without a pending request a new one is created; an open   *)
(* authority cancels a pending request; any other authority replaces it    *)
(* and restarts its expiration.                                            *)
(***************************************************************************)
RequestAccountRecovery(partner, a, auth) ==
    /\ IF recovery_account[a] # NoAccount
         THEN recovery_account[a] = partner
         ELSE TopWitness = partner
    /\ IF a \notin DOMAIN recovery_request
         THEN /\ auth # ImpossibleAuth
              /\ auth # OpenAuth
              /\ recovery_request' = recovery_request @@
                    (a :> [new_owner_authority |-> auth, expires |-> now + EXPIRATION_PERIOD])
         ELSE IF auth = OpenAuth
         THEN recovery_request' = [x \in DOMAIN recovery_request \ {a} |-> recovery_request[x]]
         ELSE /\ auth # ImpossibleAuth
              /\ recovery_request' = [recovery_request EXCEPT
                    ![a] = [new_owner_authority |-> auth, expires |-> now + EXPIRATION_PERIOD]]
    /\ UNCHANGED <<now, owner, last_owner_update, last_account_recovery, owner_history,
                   recovery_account, change_request, last_owned, change_requested_at>>

\* The history lookup of recover_account (lines 876-886).
InOwnerHistory(a, auth) ==
    \E h \in owner_history : h.account = a /\ h.previous_owner_authority = auth

\* recover_account_operation::get_required_authorities: the operation is
\* signed by both the new owner authority and the recent one it proves.
RecoverAccountAuthorities(new, recent) == Signable(new) /\ Signable(recent)

(***************************************************************************)
(* recover_account_evaluator::do_apply, signed by both the new and the     *)
(* recent owner authority: the recovery rate limit, a pending request for  *)
(* exactly the new authority and the recent one found in the history; the  *)
(* request is removed, the new owner installed and the recovery stamped.   *)
(***************************************************************************)
RecoverAccount(a, new, recent) ==
    /\ RecoverAccountAuthorities(new, recent)
    /\ now - last_account_recovery[a] > OWNER_UPDATE_LIMIT
    /\ a \in DOMAIN recovery_request
    /\ recovery_request[a].new_owner_authority = new
    /\ InOwnerHistory(a, recent)
    /\ recovery_request' = [x \in DOMAIN recovery_request \ {a} |-> recovery_request[x]]
    /\ UpdateOwnerAuthority(a, new)
    /\ last_account_recovery' = [last_account_recovery EXCEPT ![a] = now]
    /\ UNCHANGED <<now, recovery_account, change_request, change_requested_at>>

\* Mutant: replacing a pending change keeps its old effective time.
ChangeRecoveryAccount_KeepDelay(a, new_recovery_account) ==
    /\ OwnerSigned(a)
    /\ IF a \notin DOMAIN change_request
         THEN change_request' = change_request @@
                 (a :> [recovery_account |-> new_recovery_account,
                        effective_on |-> now + RECOVERY_PERIOD])
         ELSE IF recovery_account[a] # new_recovery_account
         THEN change_request' = [change_request EXCEPT
                 ![a].recovery_account = new_recovery_account]
         ELSE change_request' = [x \in DOMAIN change_request \ {a} |-> change_request[x]]
    /\ change_requested_at' = [change_requested_at EXCEPT ![a] = now]
    /\ UNCHANGED <<now, owner, last_owner_update, last_account_recovery, owner_history,
                   recovery_account, recovery_request, last_owned>>

(***************************************************************************)
(* change_recovery_account_evaluator::do_apply, signed by the account's    *)
(* owner: without a pending change one is created, effective after         *)
(* RECOVERY_PERIOD; naming another account than the current partner        *)
(* replaces it and restarts the delay; naming the current partner cancels  *)
(* it.                                                                     *)
(***************************************************************************)
ChangeRecoveryAccount(a, new_recovery_account) ==
    /\ OwnerSigned(a)
    /\ IF a \notin DOMAIN change_request
         THEN change_request' = change_request @@
                 (a :> [recovery_account |-> new_recovery_account,
                        effective_on |-> now + RECOVERY_PERIOD])
         ELSE IF recovery_account[a] # new_recovery_account
         THEN change_request' = [change_request EXCEPT
                 ![a] = [recovery_account |-> new_recovery_account,
                         effective_on |-> now + RECOVERY_PERIOD]]
         ELSE change_request' = [x \in DOMAIN change_request \ {a} |-> change_request[x]]
    /\ change_requested_at' = [change_requested_at EXCEPT ![a] = now]
    /\ UNCHANGED <<now, owner, last_owner_update, last_account_recovery, owner_history,
                   recovery_account, recovery_request, last_owned>>

\* Mutant: the history is pruned against the previous block's time.
NewBlock_PruneWithOldTime ==
    LET t    == IF now < MaxTime THEN now + 1 ELSE now
        live == {a \in DOMAIN recovery_request : recovery_request[a].expires > t}
        due  == {a \in DOMAIN change_request : change_request[a].effective_on <= t}
    IN
    /\ now' = t
    /\ recovery_request' = [a \in live |-> recovery_request[a]]
    /\ owner_history' = {h \in owner_history : h.last_valid_time + RECOVERY_PERIOD >= now}
    /\ recovery_account' = [a \in Recoverable |->
                              IF a \in due THEN change_request[a].recovery_account
                                           ELSE recovery_account[a]]
    /\ change_request' = [a \in DOMAIN change_request \ due |-> change_request[a]]
    /\ UNCHANGED <<owner, last_owner_update, last_account_recovery, last_owned,
                   change_requested_at>>

(***************************************************************************)
(* A new block: the head block time advances, then                         *)
(* database::account_recovery_processing drops the recovery requests that  *)
(* have expired and the history entries older than RECOVERY_PERIOD, and    *)
(* applies the recovery account changes that have become effective.        *)
(***************************************************************************)
NewBlock ==
    LET t    == IF now < MaxTime THEN now + 1 ELSE now
        live == {a \in DOMAIN recovery_request : recovery_request[a].expires > t}
        due  == {a \in DOMAIN change_request : change_request[a].effective_on <= t}
    IN
    /\ now' = t
    /\ recovery_request' = [a \in live |-> recovery_request[a]]
    /\ owner_history' = {h \in owner_history : h.last_valid_time + RECOVERY_PERIOD >= t}
    /\ recovery_account' = [a \in Recoverable |->
                              IF a \in due THEN change_request[a].recovery_account
                                           ELSE recovery_account[a]]
    /\ change_request' = [a \in DOMAIN change_request \ due |-> change_request[a]]
    /\ UNCHANGED <<owner, last_owner_update, last_account_recovery, last_owned,
                   change_requested_at>>

Next ==
    \/ NewBlock
    \/ \E a \in Recoverable, auth \in Auths : AccountUpdate(a, auth)
    \/ \E a \in Recoverable : AccountDelete(a)
    \/ \E p \in Accounts, a \in Recoverable, auth \in Auths \cup {OpenAuth, ImpossibleAuth} :
          RequestAccountRecovery(p, a, auth)
    \/ \E a \in Recoverable, new, recent \in Auths : RecoverAccount(a, new, recent)
    \/ \E a \in Recoverable, p \in Accounts : ChangeRecoveryAccount(a, p)

Spec == Init /\ [][Next]_vars

-----------------------------------------------------------------------------
(***************************************************************************)
(* Properties                                                              *)
(***************************************************************************)

TypeOK ==
    /\ now \in Times
    /\ owner \in [Recoverable -> AllAuths]
    /\ last_owner_update \in [Recoverable -> Times \cup {Never}]
    /\ last_account_recovery \in [Recoverable -> Times \cup {Never}]
    /\ owner_history \subseteq [account : Recoverable, previous_owner_authority : AllAuths,
                                last_valid_time : Times]
    /\ recovery_account \in [Recoverable -> Accounts \cup {NoAccount}]
    /\ DOMAIN recovery_request \subseteq Recoverable
    /\ \A a \in DOMAIN recovery_request :
          recovery_request[a] \in [new_owner_authority : Auths,
                                   expires : 1..MaxTime + EXPIRATION_PERIOD]
    /\ DOMAIN change_request \subseteq Recoverable
    /\ \A a \in DOMAIN change_request :
          change_request[a] \in [recovery_account : Accounts,
                                 effective_on : 1..MaxTime + RECOVERY_PERIOD]

\* A recovery is proved by an authority that owned the account within the
\* last RECOVERY_PERIOD (recover_account_operation: "an owner authority
\* that was used in the past 30 days is sufficient"): the pruned
\* owner_history, however owner updates, deletions, recoveries and blocks
\* interleave, never admits an older or never-held authority.
RecoveryProvedByRecentOwner ==
    [][\A a \in Recoverable, new, recent \in Auths :
          RecoverAccount(a, new, recent) => last_owned[a][recent] >= now - RECOVERY_PERIOD]_vars

\* Whoever holds the owner authority cannot replace the recovery partner
\* sooner than RECOVERY_PERIOD after their last change_recovery_account, so
\* the partner in place when an owner key is stolen can still recover the
\* account during that time.
RecoveryPartnerChangeDelayed ==
    [][\A a \in Recoverable :
          recovery_account'[a] # recovery_account[a] =>
              now' - change_requested_at[a] >= RECOVERY_PERIOD]_vars

\* A deleted account stays deleted: account_delete revokes all access to
\* the account (spec, section 4.1), so its owner authority never changes
\* again.
DeletedAccountStaysDeleted ==
    [][\A a \in Recoverable : owner[a] = DeletedAuth => owner'[a] = DeletedAuth]_vars
====
