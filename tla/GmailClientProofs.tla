--------------------------- MODULE GmailClientProofs ---------------------------
(***************************************************************************)
(* What GmailClient and the read-only guard promise, for any verbs and     *)
(* scopes: the call under way was vetted before its token existed, the     *)
(* token was proven before it was kept, and neither is taken over from a   *)
(* client of another kind.                                                 *)
(***************************************************************************)
EXTENDS GmailClient, TLAPS

(* What the call under way and the token of a read-only client are known to be. *)
CallIsVetted ==
    client.readOnly /\ call # NoCall => call.verb \in ReadVerbs /\ call.args = "safe"
TokenIsProven == client.readOnly /\ token # NoToken => ExactlyReadonly(token)
NothingBeforeClient == client = NoClient => token = NoToken /\ call = NoCall
WarnedIsTold == sinkWarned => told

Guarded == CallIsVetted /\ TokenIsProven /\ NothingBeforeClient /\ OnlyReadsLeave
Heard == WarnedIsTold /\ LostDenialsAreTold

-----------------------------------------------------------------------------
(* The state is empty before the account is loaded, so the guard's invariant holds. *)
LEMMA InitIsGuarded == Init => Guarded /\ Heard
BY DEF Init, Guarded, Heard, CallIsVetted, TokenIsProven, NothingBeforeClient,
       OnlyReadsLeave, WarnedIsTold, LostDenialsAreTold, NoClient, NoRequest

(* emitDenial warns whenever the sink throws and no warning was given. *)
LEMMA DenialIsHeard == Heard /\ emitDenial => Heard'
BY DEF Heard, emitDenial, WarnedIsTold, LostDenialsAreTold

(* No step of the client or of its world loses a denial in silence. *)
LEMMA StepIsHeard == Heard /\ [Next]_vars => Heard'
<1>1. SUFFICES ASSUME Heard, [Next]_vars PROVE Heard'
  OBVIOUS
<1>2. CASE UNCHANGED sinkVars
  BY <1>1, <1>2 DEF Heard, WarnedIsTold, LostDenialsAreTold, sinkVars
<1>3. CASE emitDenial
  BY <1>1, <1>3, DenialIsHeard
<1>4. CASE SinkFlips
  BY <1>1, <1>4 DEF SinkFlips, Heard, WarnedIsTold, LostDenialsAreTold
<1>5. CASE SinkReplaced
  BY <1>5 DEF SinkReplaced, SinkRegistered, Heard, WarnedIsTold, LostDenialsAreTold
<1>6. CASE Restart
  BY <1>6 DEF Restart, Heard, WarnedIsTold, LostDenialsAreTold
<1>7. CASE Loads
  BY <1>7, <1>2, <1>3 DEF Loads, FromTokenFile
<1>8. CASE Calls
  BY <1>8, <1>2, <1>3 DEF Calls, Deny, Invoke, Refreshed, RefreshRefused, Send, CallFails
<1>9. CASE TokenExpires
  BY <1>9, <1>2 DEF TokenExpires
<1>10. CASE UNCHANGED vars
  BY <1>10, <1>2 DEF vars
<1>. QED
  BY <1>1, <1>4, <1>5, <1>6, <1>7, <1>8, <1>9, <1>10 DEF Next, World

-----------------------------------------------------------------------------
(* A load starts a client with neither a token nor a call. *)
LEMMA LoadIsGuarded ==
    ASSUME NEW file, NEW shared, NEW readOnly, Guarded, FromTokenFile(file, shared, readOnly)
    PROVE  Guarded'
BY DEF FromTokenFile, Guarded, CallIsVetted, TokenIsProven, NothingBeforeClient,
       OnlyReadsLeave, ExactlyReadonly

(* What the proxy lets through of a read-only client is a read with vetted arguments. *)
LEMMA InvokeIsGuarded ==
    ASSUME NEW verb, NEW args \in Args, Guarded, Invoke(verb, args)
    PROVE  Guarded'
<1>1. client.readOnly => verb \in ReadVerbs /\ args = "safe"
  BY DEF Invoke, Refused, Args
<1>2. CallIsVetted'
  BY <1>1 DEF Invoke, CallIsVetted
<1>3. NothingBeforeClient'
  BY DEF Invoke, NothingBeforeClient
<1>. QED
  BY <1>2, <1>3 DEF Invoke, Guarded, TokenIsProven, OnlyReadsLeave, ExactlyReadonly

(* A refreshed token is kept only if its scopes are exactly gmail.readonly. *)
LEMMA RefreshIsGuarded ==
    ASSUME NEW granted, Guarded, Refreshed(granted)
    PROVE  Guarded'
<1>1. TokenIsProven'
  BY DEF Refreshed, TokenIsProven, ExactlyReadonly
<1>2. NothingBeforeClient'
  BY DEF Refreshed, Guarded, NothingBeforeClient
<1>. QED
  BY <1>1, <1>2 DEF Refreshed, Guarded, CallIsVetted, OnlyReadsLeave, ExactlyReadonly

(* What is sent is the vetted copy, whatever the caller's object has become. *)
LEMMA SendIsGuarded ==
    ASSUME NEW argsNow, Guarded, Send(argsNow)
    PROVE  Guarded'
<1>1. client.readOnly => ArgsSent(argsNow) = "safe"
  BY DEF Send, Guarded, CallIsVetted, ArgsSent
<1>2. OnlyReadsLeave'
  <2>1. SUFFICES ASSUME client.readOnly
                 PROVE  /\ call.verb \in ReadVerbs /\ ArgsSent(argsNow) = "safe"
                        /\ ExactlyReadonly(token)
    BY DEF Send, OnlyReadsLeave, ExactlyReadonly
  <2>. QED
    BY <1>1, <2>1 DEF Send, Guarded, CallIsVetted, TokenIsProven
<1>3. CallIsVetted' /\ NothingBeforeClient'
  BY DEF Send, Guarded, CallIsVetted, NothingBeforeClient
<1>. QED
  BY <1>2, <1>3 DEF Send, Guarded, TokenIsProven, ExactlyReadonly

(* Every step keeps the guard's invariant: refusals, failures and the token's *)
(* expiry only take something away.                                           *)
LEMMA StepIsGuarded == Guarded /\ [Next]_vars => Guarded'
<1>. USE DEF Guarded, CallIsVetted, TokenIsProven, NothingBeforeClient, OnlyReadsLeave,
             ExactlyReadonly
<1>1. SUFFICES ASSUME Guarded, [Next]_vars PROVE Guarded'
  OBVIOUS
<1>2. CASE Loads
  BY <1>1, <1>2, LoadIsGuarded DEF Loads
<1>3. CASE Calls
  <2>1. ASSUME NEW verb \in Verbs, NEW args \in Args, Deny(verb, args) PROVE Guarded'
    BY <1>1, <2>1 DEF Deny
  <2>2. ASSUME NEW verb \in Verbs, NEW args \in Args, Invoke(verb, args) PROVE Guarded'
    BY <1>1, <2>2, InvokeIsGuarded
  <2>3. ASSUME NEW granted \in ScopeLists, Refreshed(granted) PROVE Guarded'
    BY <1>1, <2>3, RefreshIsGuarded
  <2>4. ASSUME NEW granted \in ScopeLists, RefreshRefused(granted) PROVE Guarded'
    BY <1>1, <2>4 DEF RefreshRefused
  <2>5. ASSUME NEW argsNow \in Args, Send(argsNow) PROVE Guarded'
    BY <1>1, <2>5, SendIsGuarded
  <2>6. ASSUME CallFails PROVE Guarded'
    BY <1>1, <2>6 DEF CallFails
  <2>. QED
    BY <1>3, <2>1, <2>2, <2>3, <2>4, <2>5, <2>6 DEF Calls
<1>4. CASE World
  <2>1. CASE TokenExpires
    BY <1>1, <2>1 DEF TokenExpires
  <2>2. CASE SinkFlips \/ SinkReplaced
    BY <1>1, <2>2 DEF SinkFlips, SinkReplaced
  <2>3. CASE Restart
    BY <2>3 DEF Restart, NoClient, NoRequest
  <2>. QED
    BY <1>4, <2>1, <2>2, <2>3 DEF World
<1>5. CASE UNCHANGED vars
  BY <1>1, <1>5 DEF vars
<1>. QED
  BY <1>1, <1>2, <1>3, <1>4, <1>5 DEF Next

-----------------------------------------------------------------------------
(* Of a read-only client (gmail.js 223-259, readonly-guard.js 444-483) only    *)
(* vetted reads reach Gmail, under a token Google said is exactly              *)
(* gmail.readonly.                                                             *)
THEOREM ReadOnlyIsKept == Spec => []OnlyReadsLeave
<1>1. Guarded => OnlyReadsLeave
  BY DEF Guarded
<1>. QED
  BY <1>1, InitIsGuarded, StepIsGuarded, PTL DEF Spec

(* A denial the sink of readonly-guard.js 245-274 did not take was warned of. *)
THEOREM DenialsAreHeard == Spec => []LostDenialsAreTold
<1>1. Heard => LostDenialsAreTold
  BY DEF Heard
<1>. QED
  BY <1>1, InitIsGuarded, StepIsHeard, PTL DEF Spec

(* fromTokenFile looks at the shared file last, and only for a token file    *)
(* that names no OAuth client: gmail.js 139-162, 356-387.                    *)
THEOREM BlameFallsRight == Spec => BlameIsRight
<1>1. ASSUME NEW file \in TokenFiles, NEW shared \in SharedFiles, NEW readOnly \in BOOLEAN,
             FromTokenFile(file, shared, readOnly)
      PROVE  LET code == Load(file, shared, readOnly)
             IN  /\ code \in PER_ACCOUNT_TOKEN_ERROR_CODES \/ file.pair =>
                       \A other \in SharedFiles : Load(file, other, readOnly) = code
                 /\ code = "OAUTH_CLIENT_FILE_INVALID" => Load(file, "pair", readOnly) = "ok"
                 /\ file.pair => client'.pair # "shared"
  <2>1. Load(file, shared, readOnly) \in PER_ACCOUNT_TOKEN_ERROR_CODES \/ file.pair =>
          \A other \in SharedFiles : Load(file, other, readOnly) = Load(file, shared, readOnly)
    BY DEF Load, PER_ACCOUNT_TOKEN_ERROR_CODES
  <2>2. Load(file, shared, readOnly) = "OAUTH_CLIENT_FILE_INVALID" =>
          Load(file, "pair", readOnly) = "ok"
    BY DEF Load
  <2>3. file.pair => client'.pair # "shared"
    BY <1>1 DEF FromTokenFile, PairUsed, NoClient
  <2>. QED
    BY <2>1, <2>2, <2>3
<1>2. [Next]_vars =>
        [\A file \in TokenFiles, shared \in SharedFiles, readOnly \in BOOLEAN :
          FromTokenFile(file, shared, readOnly) =>
            LET code == Load(file, shared, readOnly)
            IN  /\ code \in PER_ACCOUNT_TOKEN_ERROR_CODES \/ file.pair =>
                      \A other \in SharedFiles : Load(file, other, readOnly) = code
                /\ code = "OAUTH_CLIENT_FILE_INVALID" => Load(file, "pair", readOnly) = "ok"
                /\ file.pair => client'.pair # "shared"]_vars
  BY <1>1
<1>. QED
  BY <1>2, PTL DEF Spec, BlameIsRight
=============================================================================
