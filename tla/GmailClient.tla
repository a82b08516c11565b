----------------------------- MODULE GmailClient -----------------------------
(***************************************************************************)
(* One account's GmailClient (src/gmail.js) and, when the account is       *)
(* read-only, the guard around its Gmail API (src/readonly-guard.js): how  *)
(* the client is built from the token files, how a call's arguments are    *)
(* vetted and copied before the access token is even there, what is        *)
(* checked of a refreshed token, and where a refusal is recorded.          *)
(*                                                                         *)
(* A call is sent long after it was vetted: googleapis waits for the token *)
(* refresh in between, and the caller may use its argument object again.   *)
(***************************************************************************)
EXTENDS Sequences, Functions

CONSTANTS
    ReadVerbs,    \* READ_VERBS: get, list, getProfile
    WriteVerbs,   \* modify, batchModify, trash, send, create, ...
    RO,           \* the gmail.readonly scope
    ScopeLists    \* the lists of scopes that occur; <<>>: missing or malformed

ASSUME ScopesAssumption == ReadVerbs \cap WriteVerbs = {} /\ <<>> \in ScopeLists

Verbs == ReadVerbs \cup WriteVerbs
Args == {"safe", "unsafe"}     \* unsafe: what SAFE_PARAM_KEYS and SAFE_OPTION_KEYS refuse
(* What a load finds; a file that is missing or not JSON says nothing else. *)
TokenFiles ==
    [state : {"missing", "invalid"}, refreshToken : {FALSE}, scopes : {<<>>}, pair : {FALSE}]
    \cup [state : {"valid"}, refreshToken : BOOLEAN, scopes : ScopeLists, pair : BOOLEAN]
SharedFiles == {"missing", "invalid", "noPair", "pair"}
PER_ACCOUNT_TOKEN_ERROR_CODES ==
    {"TOKEN_FILE_MISSING", "REFRESH_TOKEN_MISSING", "TOKEN_FILE_INVALID",
     "READ_ONLY_SCOPE_MISMATCH"}

VARIABLES
    client,    \* the client in use, or NoClient
    token,     \* scopes of the access token it keeps, or NoToken
    call,      \* the call under way, or NoCall
    sent,      \* history: the request that reached Gmail last, or NoRequest
    sink,      \* the denial sink: "none", or a registered one that is "up" or "down"
    sinkWarned,
    unlogged,  \* history: a denial since the sink was registered is not in it
    told       \* history: the operator was warned since the sink was registered

sinkVars == <<sink, sinkWarned, unlogged, told>>
vars == <<client, token, call, sent, sinkVars>>

NoClient == [readOnly |-> FALSE, pair |-> "none"]
NoToken == <<"none">>
NoCall == [verb |-> "none", args |-> "none"]
NoRequest == [readOnly |-> FALSE, verb |-> "none", args |-> "none", scopes |-> NoToken]

-----------------------------------------------------------------------------
(* assertExactlyReadonly: one entry, and it is gmail.readonly. *)
ExactlyReadonly(scopes) == Range(scopes) \subseteq {RO} /\ Len(scopes) = 1

(* resolveClientCredentials: the pair of the token file, else of the shared one. *)
PairUsed(file) == IF file.pair THEN "own" ELSE "shared"
(* Mutated: the shared file is read before the token file. *)
LoadSharedFirst(file, shared, readOnly) ==
    CASE shared # "pair" -> "OAUTH_CLIENT_FILE_INVALID"
      [] file.state = "missing" -> "TOKEN_FILE_MISSING"
      [] file.state = "invalid" -> "TOKEN_FILE_INVALID"
      [] file.state = "valid" /\ ~file.refreshToken -> "REFRESH_TOKEN_MISSING"
      [] OTHER -> IF readOnly /\ ~ExactlyReadonly(file.scopes)
                  THEN "READ_ONLY_SCOPE_MISMATCH" ELSE "ok"
(* fromTokenFile: the code it throws with, or "ok". *)
Load(file, shared, readOnly) ==
    IF file.state = "missing" THEN "TOKEN_FILE_MISSING"
    ELSE IF file.state = "invalid" THEN "TOKEN_FILE_INVALID"
    ELSE IF ~file.refreshToken THEN "REFRESH_TOKEN_MISSING"
    ELSE IF readOnly /\ ~ExactlyReadonly(file.scopes) THEN "READ_ONLY_SCOPE_MISMATCH"
    ELSE IF ~file.pair /\ shared # "pair" THEN "OAUTH_CLIENT_FILE_INVALID"
    ELSE "ok"

(* emitDenial: to the sink; the first time that throws, a warning instead. *)
emitDenial ==
    /\ unlogged' = (unlogged \/ sink = "down")
    /\ sinkWarned' = (sinkWarned \/ sink = "down")
    /\ told' = (told \/ (sink = "down" /\ ~sinkWarned))
    /\ UNCHANGED sink

(* Mutated: the flag outlives the sink it was raised for. *)
SinkRegisteredWarned(s) ==
    /\ sink' = s /\ unlogged' = FALSE /\ told' = FALSE /\ UNCHANGED sinkWarned
(* setReadOnlyDenialSink. *)
SinkRegistered(s) ==
    /\ sink' = s /\ unlogged' = FALSE /\ told' = FALSE /\ sinkWarned' = FALSE

-----------------------------------------------------------------------------
(* A process loads the account, from whatever files it finds. *)
FromTokenFile(file, shared, readOnly) ==
    /\ client = NoClient
    /\ LET code == Load(file, shared, readOnly)
       IN  /\ client' = IF code = "ok" THEN [readOnly |-> readOnly, pair |-> PairUsed(file)]
                        ELSE NoClient
           /\ IF code = "READ_ONLY_SCOPE_MISMATCH" THEN emitDenial ELSE UNCHANGED sinkVars
    /\ UNCHANGED <<token, call, sent>>

(* The proxy: another verb, or arguments it does not know, are refused.  A read *)
(* goes on with a copy, a writable account's call with the caller's object.     *)
Refused(verb, args) == client.readOnly /\ (verb \notin ReadVerbs \/ args = "unsafe")
Deny(verb, args) ==
    /\ client # NoClient /\ call = NoCall
    /\ Refused(verb, args)
    /\ emitDenial
    /\ UNCHANGED <<client, token, call, sent>>
Invoke(verb, args) ==
    /\ client # NoClient /\ call = NoCall
    /\ ~Refused(verb, args)
    /\ call' = [verb |-> verb, args |-> IF client.readOnly THEN args ELSE "caller's"]
    /\ UNCHANGED <<client, token, sent, sinkVars>>

(* Mutated: the scopes of the token file are taken for those of the token. *)
RefreshedUnchecked(granted) ==
    /\ call # NoCall /\ token = NoToken
    /\ token' = granted
    /\ UNCHANGED <<client, call, sent, sinkVars>>
(* refreshTokenNoCache: a read-only client checks the scopes Google answers with. *)
Refreshed(granted) ==
    /\ call # NoCall /\ token = NoToken
    /\ ~client.readOnly \/ ExactlyReadonly(granted)
    /\ token' = granted
    /\ UNCHANGED <<client, call, sent, sinkVars>>
RefreshRefused(granted) ==
    /\ call # NoCall /\ token = NoToken
    /\ client.readOnly /\ ~ExactlyReadonly(granted)
    /\ emitDenial
    /\ call' = NoCall
    /\ UNCHANGED <<client, token, sent>>

(* Mutated: what is sent is the caller's object. *)
ArgsOfCaller(argsNow) == argsNow
ArgsSent(argsNow) == IF call.args = "caller's" THEN argsNow ELSE call.args
(* argsNow: the caller's object, which may have changed since the call. *)
Send(argsNow) ==
    /\ call # NoCall /\ token # NoToken
    /\ sent' = [readOnly |-> client.readOnly, verb |-> call.verb,
                args |-> ArgsSent(argsNow), scopes |-> token]
    /\ call' = NoCall
    /\ UNCHANGED <<client, token, sinkVars>>
(* The refresh or the request fails: the caller, or withRetry, calls again. *)
CallFails ==
    /\ call # NoCall /\ call' = NoCall
    /\ UNCHANGED <<client, token, sent, sinkVars>>

(* The access token's age, the durable log, and a restarted process. *)
TokenExpires == /\ token # NoToken /\ token' = NoToken
                /\ UNCHANGED <<client, call, sent, sinkVars>>
SinkFlips ==
    /\ sink # "none"
    /\ sink' = (IF sink = "up" THEN "down" ELSE "up")
    /\ UNCHANGED <<client, token, call, sent, sinkWarned, unlogged, told>>
SinkReplaced ==
    /\ \E s \in {"none", "up", "down"} : SinkRegistered(s)
    /\ UNCHANGED <<client, token, call, sent>>
Restart ==
    /\ client' = NoClient /\ token' = NoToken /\ call' = NoCall /\ sent' = NoRequest
    /\ sink' = "none" /\ sinkWarned' = FALSE /\ unlogged' = FALSE /\ told' = FALSE

Init ==
    /\ client = NoClient /\ token = NoToken /\ call = NoCall /\ sent = NoRequest
    /\ sink = "none" /\ sinkWarned = FALSE /\ unlogged = FALSE /\ told = FALSE

Loads == \E file \in TokenFiles, shared \in SharedFiles, readOnly \in BOOLEAN :
            FromTokenFile(file, shared, readOnly)
Calls == \/ \E verb \in Verbs, args \in Args : Deny(verb, args) \/ Invoke(verb, args)
         \/ \E granted \in ScopeLists : Refreshed(granted) \/ RefreshRefused(granted)
         \/ \E argsNow \in Args : Send(argsNow)
         \/ CallFails
World == TokenExpires \/ SinkFlips \/ SinkReplaced \/ Restart
Next == Loads \/ Calls \/ World
Spec == Init /\ [][Next]_vars

-----------------------------------------------------------------------------
Scopes == ScopeLists \cup {NoToken}
TypeOK ==
    /\ client \in [readOnly : BOOLEAN, pair : {"none", "own", "shared"}]
    /\ token \in Scopes
    /\ call = NoCall \/ call \in [verb : Verbs, args : Args \cup {"caller's"}]
    /\ sent = NoRequest
       \/ sent \in [readOnly : BOOLEAN, verb : Verbs, args : Args, scopes : Scopes]
    /\ sink \in {"none", "up", "down"}
    /\ sinkWarned \in BOOLEAN /\ unlogged \in BOOLEAN /\ told \in BOOLEAN

(* readonly-guard.js 340-346, 414-420 and gmail.js 223-243: of a read-only      *)
(* client only reads reach Gmail, with arguments that were vetted, whatever the *)
(* caller did to its objects meanwhile, and with a token that Google itself     *)
(* says is exactly gmail.readonly, whatever the token file claimed.             *)
OnlyReadsLeave ==
    sent.readOnly =>
        sent.verb \in ReadVerbs /\ sent.args = "safe" /\ ExactlyReadonly(sent.scopes)

(* gmail.js 139-162 and readonly-guard.js 234-243: a load that fails with a     *)
(* per-account code would fail the same whatever the shared file says, so that  *)
(* a runtime may skip this account alone; one that blames the shared file comes *)
(* right with that file; and a client of a token file that names its OAuth      *)
(* client is never the shared one.                                              *)
BlameIsRight ==
    [][ \A file \in TokenFiles, shared \in SharedFiles, readOnly \in BOOLEAN :
          FromTokenFile(file, shared, readOnly) =>
            LET code == Load(file, shared, readOnly)
            IN  /\ code \in PER_ACCOUNT_TOKEN_ERROR_CODES \/ file.pair =>
                      \A other \in SharedFiles : Load(file, other, readOnly) = code
                /\ code = "OAUTH_CLIENT_FILE_INVALID" => Load(file, "pair", readOnly) = "ok"
                /\ file.pair => client'.pair # "shared" ]_vars

(* readonly-guard.js 245-274: a denial that the durable log did not take is     *)
(* known to the operator from a warning of its own time.                        *)
LostDenialsAreTold == unlogged => told
=============================================================================
