------------------------------ MODULE RemoteAuth ------------------------------
(***************************************************************************)
(* The credentials of one remote of internal/mcp: runConsent with its      *)
(* loopback callback, remoteTransport.RoundTrip in any number of           *)
(* goroutines, the single-flight refresh under tokMu, and the wipe of      *)
(* remote.shutdown.  Credentials are numbered by the token response that   *)
(* brought them; a server may answer anything.  The sessions built on the  *)
(* requests, and who calls shutdown, are McpRemote's.                      *)
(***************************************************************************)
EXTENDS Naturals

CONSTANTS Requests,   (* goroutines in RoundTrip                         *)
          MaxIssues   (* bound: token responses an authorization server gives *)

Nobody == "nobody"

ASSUME RemoteAuthAssumption == MaxIssues \in Nat \ {0} /\ Nobody \notin Requests

Issue == 0 .. MaxIssues                    (* 0: none                    *)
Kind == {"client", "verifier", "code", "access", "refresh"}
Secret == Kind \X Issue                    (* working copies of type secret *)

VARIABLES
  su,          (* where connect and runConsent are                          *)
  answer,      (* what the callback listener has accepted                   *)
  tok,         (* remote.tok: the issue of each half, 0 when empty or wiped *)
  retired,     (* the secrets of remote.retired                             *)
  live,        (* secrets made and not zeroed yet                           *)
  issued,      (* token responses so far                                    *)
  fresh,       (* remote.freshTok, 0 for nil                                *)
  failed,      (* remote.failure is set                                     *)
  stage,       (* how far doShutdown is                                     *)
  refreshing,  (* the request refreshing under tokMu                        *)
  at,          (* where each request is in RoundTrip                        *)
  delete,      (* the requests that are a session's DELETE                  *)
  sent,        (* the access token each one holds                           *)
  spent,       (* history: refresh tokens the server may have rotated away  *)
  tries        (* history: refreshes requested on behalf of an access token *)

setupVars == <<su, answer>>
tokens == <<tok, retired, live, issued, fresh, failed>>
requests == <<at, delete, sent>>
history == <<spent, tries>>
authVars == <<setupVars, tokens, stage, refreshing, requests, history>>
-----------------------------------------------------------------------------
NoTok == [access |-> 0, refresh |-> 0]

SecretsOf(t) ==
  {s \in {<<"access", t.access>>, <<"refresh", t.refresh>>} : s[2] # 0}

Closing == stage # "off"

Cancelled == stage \notin {"off", "closing"}

Zeroed == stage \in {"zeroed", "wiped"}

InSetup == su \notin {"off", "ready", "failed"}

(* What a refresh retires: the refresh half too, once the server rotates it. *)
Retire(rotates) ==
  {<<"access", tok.access>>} \cup (IF rotates THEN {<<"refresh", tok.refresh>>} ELSE {})
-----------------------------------------------------------------------------
AuthInit ==
  /\ su = "off" /\ answer = "none"
  /\ tok = NoTok /\ retired = {} /\ live = {} /\ issued = 0 /\ fresh = 0 /\ failed = FALSE
  /\ stage = "off" /\ refreshing = Nobody
  /\ at = [p \in Requests |-> "idle"] /\ delete = {} /\ sent = [p \in Requests |-> 0]
  /\ spent = {} /\ tries = [k \in Issue |-> 0]

(* beginSetup refuses once shutdown has begun.                             *)
BeginSetup ==
  /\ su = "off"
  /\ su' = IF Closing THEN "failed" ELSE "discover"
  /\ UNCHANGED <<answer, tokens, stage, refreshing, requests, history>>

(* Discovery on the pinned origins, then the loopback listener.            *)
Discover ==
  /\ su = "discover"
  /\ su' \in {"register", "failed"}
  /\ UNCHANGED <<answer, tokens, stage, refreshing, requests, history>>

(* Dynamic registration; the server may issue a client secret.             *)
Register ==
  /\ su = "register"
  /\ \/ su' = "prompt" /\ live' \in {live, live \cup {<<"client", 1>>}}
     \/ su' = "failed" /\ UNCHANGED live
  /\ UNCHANGED <<answer, tok, retired, issued, fresh, failed, stage, refreshing, requests,
                 history>>

(* Unless the context has ended, which setupCancel causes soon after       *)
(* closing: arm the state and show the URL.                                *)
Prompt ==
  /\ su = "prompt"
  /\ \/ ~Cancelled /\ su' = "await" /\ live' = live \cup {<<"verifier", 1>>}
     \/ su' = "failed" /\ UNCHANGED live
  /\ UNCHANGED <<answer, tok, retired, issued, fresh, failed, stage, refreshing, requests,
                 history>>

(* GET /callback with the armed state, accepted once; every other request  *)
(* is answered 400, 404 or 405 and changes nothing.                        *)
Callback ==
  /\ su = "await" /\ answer = "none"
  /\ \/ answer' = "code" /\ live' = live \cup {<<"code", 1>>}
     \/ answer' = "denied" /\ UNCHANGED live
  /\ UNCHANGED <<su, tok, retired, issued, fresh, failed, stage, refreshing, requests, history>>

(* await's select: the answer, or the end of the context when that is over *)
(* too; runConsent's deferred calls wipe what await returned.              *)
AwaitReturns ==
  /\ su = "await"
  /\ \/ answer = "code" /\ su' = "exchange" /\ UNCHANGED live
     \/ su' = "failed" /\ live' = live \ {<<"verifier", 1>>}
  /\ UNCHANGED <<answer, tok, retired, issued, fresh, failed, stage, refreshing, requests,
                 history>>

(* exchange: a token set within scope, or nothing; one out of scope is     *)
(* revoked and zeroed on the spot.  The response may omit a refresh token. *)
Exchange ==
  /\ su = "exchange"
  /\ LET rest == live \ {<<"verifier", 1>>, <<"code", 1>>} IN
     \/ /\ issued' = issued + 1 /\ su' = "install"
        /\ \E withRefresh \in BOOLEAN :
             live' = rest \cup SecretsOf([access |-> 1, refresh |-> IF withRefresh THEN 1 ELSE 0])
     \/ su' = "failed" /\ live' = rest /\ UNCHANGED issued
  /\ UNCHANGED <<answer, tok, retired, fresh, failed, stage, refreshing, requests, history>>

MayInstall == ~Closing

(* connect stores the credentials, or wipes them once shutdown has begun.  *)
StoreTokens ==
  /\ su = "install"
  /\ LET arrived == {s \in live : s[1] \in {"access", "refresh"}} IN
     IF MayInstall
     THEN /\ su' = "ready"
          /\ tok' = [access |-> 1, refresh |-> IF <<"refresh", 1>> \in live THEN 1 ELSE 0]
          /\ UNCHANGED live
     ELSE su' = "failed" /\ live' = live \ arrived /\ UNCHANGED tok
  /\ UNCHANGED <<answer, retired, issued, fresh, failed, stage, refreshing, requests, history>>

SetupStep ==
  \/ BeginSetup \/ Discover \/ Register \/ Prompt \/ Callback \/ AwaitReturns \/ Exchange
  \/ StoreTokens
-----------------------------------------------------------------------------
MoveTo(p, where, token) ==
  /\ at' = [at EXCEPT ![p] = where]
  /\ sent' = [sent EXCEPT ![p] = token]
  /\ delete' = IF where = "idle" THEN delete \ {p} ELSE delete

Leave(p) == MoveTo(p, "idle", 0)

SetFailure == failed' = TRUE

(* RoundTrip lets a request in: no terminal state, and while closing only  *)
(* the DELETE that Client.Close sends.                                     *)
EnterRoundTrip(p, isDelete) ==
  /\ at[p] = "idle" /\ su = "ready" /\ ~failed
  /\ Closing => isDelete
  /\ at' = [at EXCEPT ![p] = "token"]
  /\ delete' = IF isDelete THEN delete \cup {p} ELSE delete
  /\ UNCHANGED <<setupVars, tokens, stage, refreshing, sent, history>>

(* A waiter for tokMu whose context ends.                                  *)
GiveUp(p) ==
  /\ at[p] \in {"token", "rejected"}
  /\ Leave(p)
  /\ UNCHANGED <<setupVars, tokens, stage, refreshing, history>>

(* refreshLocked's first half, under tokMu, for the token that is about to *)
(* expire or was rejected.                                                 *)
StartRefresh(p, where) ==
  IF tok.refresh = 0
  THEN SetFailure /\ Leave(p) /\ UNCHANGED <<refreshing, tries>>
  ELSE /\ refreshing' = p
       /\ tries' = [tries EXCEPT ![IF where = "refresh" THEN tok.access ELSE sent[p]] = @ + 1]
       /\ MoveTo(p, where, sent[p]) /\ UNCHANGED failed

(* accessToken: the current token, refreshed first when about to expire.   *)
AccessToken(p) ==
  /\ at[p] = "token" /\ refreshing = Nobody
  /\ \/ /\ Zeroed \/ tok.access = 0 \/ failed
        /\ Leave(p) /\ UNCHANGED <<failed, refreshing, tries>>
     \/ /\ ~Zeroed /\ tok.access # 0 /\ ~failed
        /\ MoveTo(p, "send", tok.access) /\ UNCHANGED <<failed, refreshing, tries>>
     \/ /\ ~Zeroed /\ tok.access # 0 /\ ~failed /\ ~Closing
        /\ StartRefresh(p, "refresh")
  /\ UNCHANGED <<setupVars, tok, retired, live, issued, fresh, stage, spent>>

(* Any answer but 401 proves the token (markAccepted).                     *)
Accepted(p) == fresh' = IF fresh = sent[p] THEN 0 ELSE fresh

(* 403, an event stream, a body that is not JSON or too large: terminal.   *)
Screened == failed' \in {failed, TRUE}

(* The answer to the first send: a DELETE's is final; a 401 leads to a     *)
(* replay, if the body allows one; 403 and a broken contract are terminal. *)
Answer(p) ==
  /\ at[p] = "send"
  /\ \/ Leave(p) /\ UNCHANGED <<fresh, failed>>
     \/ p \notin delete /\ MoveTo(p, "rejected", sent[p]) /\ UNCHANGED <<fresh, failed>>
     \/ p \notin delete /\ Leave(p) /\ SetFailure /\ UNCHANGED fresh
     \/ p \notin delete /\ Leave(p) /\ Accepted(p) /\ Screened
  /\ UNCHANGED <<setupVars, tok, retired, live, issued, stage, refreshing, history>>

SameAlways(p) == TRUE

(* The token rejected is still the current one.                            *)
StillCurrent(p) == tok.access = sent[p]

(* refreshAfter401.                                                        *)
RefreshAfter401(p) ==
  /\ at[p] = "rejected" /\ refreshing = Nobody
  /\ \/ /\ Zeroed \/ failed
        /\ Leave(p) /\ UNCHANGED <<failed, refreshing, tries>>
     \/ /\ ~Zeroed /\ ~failed /\ ~StillCurrent(p)
        /\ MoveTo(p, "resend", tok.access) /\ UNCHANGED <<failed, refreshing, tries>>
     \/ /\ ~Zeroed /\ ~failed /\ StillCurrent(p) /\ Closing
        /\ Leave(p) /\ UNCHANGED <<failed, refreshing, tries>>
     \/ /\ ~Zeroed /\ ~failed /\ StillCurrent(p) /\ ~Closing /\ fresh = sent[p]
        /\ SetFailure /\ Leave(p) /\ UNCHANGED <<refreshing, tries>>
     \/ /\ ~Zeroed /\ ~failed /\ StillCurrent(p) /\ ~Closing /\ fresh # sent[p]
        /\ StartRefresh(p, "refresh401")
  /\ UNCHANGED <<setupVars, tok, retired, live, issued, fresh, stage, spent>>

(* A new set replaces the old one; the server rotates the refresh token or *)
(* leaves the old one in force.                                            *)
RefreshSucceeds(p) ==
  /\ refreshing = p /\ issued < MaxIssues
  /\ \E rotates \in BOOLEAN :
       /\ tok' = [access |-> issued + 1, refresh |-> IF rotates THEN issued + 1 ELSE tok.refresh]
       /\ live' = live \cup {<<"access", issued + 1>>}
                       \cup (IF rotates THEN {<<"refresh", issued + 1>>} ELSE {})
       /\ spent' = IF rotates THEN spent \cup {tok.refresh} ELSE spent
       /\ retired' = retired \cup Retire(rotates)
  /\ issued' = issued + 1 /\ fresh' = issued + 1
  /\ refreshing' = Nobody
  /\ MoveTo(p, IF at[p] = "refresh" THEN "send" ELSE "resend", issued + 1)
  /\ UNCHANGED <<setupVars, failed, stage, tries>>

FailOrNot == failed' \in {failed, TRUE}

(* "Every failed refresh is terminal".                                     *)
FailRefresh == SetFailure

(* Refused, out of scope, or no readable reply: the server may have        *)
(* rotated the refresh token all the same.                                 *)
RefreshFails(p) ==
  /\ refreshing = p
  /\ FailRefresh
  /\ spent' \in {spent, spent \cup {tok.refresh}}
  /\ \/ UNCHANGED <<tok, live>>
     \/ tok' = NoTok /\ live' = live \ SecretsOf(tok)
  /\ refreshing' = Nobody
  /\ Leave(p)
  /\ UNCHANGED <<setupVars, retired, issued, fresh, stage, tries>>

(* The answer to the replay: a second 401 is terminal.                     *)
AnswerReplay(p) ==
  /\ at[p] = "resend"
  /\ Leave(p)
  /\ \/ UNCHANGED <<fresh, failed>>
     \/ SetFailure /\ UNCHANGED fresh
     \/ Accepted(p) /\ Screened
  /\ UNCHANGED <<setupVars, tok, retired, live, issued, stage, refreshing, history>>

RequestStep(p) ==
  \/ \E isDelete \in BOOLEAN : EnterRoundTrip(p, isDelete)
  \/ GiveUp(p) \/ AccessToken(p) \/ Answer(p) \/ RefreshAfter401(p)
  \/ RefreshSucceeds(p) \/ RefreshFails(p) \/ AnswerReplay(p)
-----------------------------------------------------------------------------
BeginShutdown ==
  /\ stage = "off" /\ stage' = "closing"
  /\ UNCHANGED <<setupVars, tokens, refreshing, requests, history>>

(* The grace is over: transport and refreshes are aborted.                 *)
CancelTransport ==
  /\ stage = "closing" /\ stage' = "cancelled"
  /\ UNCHANGED <<setupVars, tokens, refreshing, requests, history>>

Unjoined == TRUE

(* Every Close has returned and no connect is in flight.                   *)
Joined == delete = {} /\ ~InSetup

MarkZeroed ==
  /\ stage = "cancelled" /\ Joined
  /\ stage' = "zeroed"
  /\ UNCHANGED <<setupVars, tokens, refreshing, requests, history>>

(* The wipe, under tokMu: a refresh in flight ends first.                  *)
Wipe ==
  /\ stage = "zeroed" /\ refreshing = Nobody
  /\ live' = live \ (SecretsOf(tok) \cup retired \cup {<<"client", 1>>})
  /\ tok' = NoTok
  /\ stage' = "wiped"
  /\ UNCHANGED <<setupVars, retired, issued, fresh, failed, refreshing, requests, history>>

EndStep == BeginShutdown \/ CancelTransport \/ MarkZeroed \/ Wipe

AuthNext == SetupStep \/ EndStep \/ \E p \in Requests : RequestStep(p)

AuthSpec == AuthInit /\ [][AuthNext]_authVars
-----------------------------------------------------------------------------
AuthTypeOK ==
  /\ su \in {"off", "discover", "register", "prompt", "await", "exchange", "install", "ready",
             "failed"}
  /\ answer \in {"none", "code", "denied"}
  /\ tok \in [access : Issue, refresh : Issue]
  /\ retired \in SUBSET Secret /\ live \in SUBSET Secret
  /\ issued \in Issue /\ fresh \in Issue /\ failed \in BOOLEAN
  /\ stage \in {"off", "closing", "cancelled", "zeroed", "wiped"}
  /\ refreshing \in Requests \cup {Nobody}
  /\ at \in [Requests -> {"idle", "token", "refresh", "send", "rejected", "refresh401",
                          "resend"}]
  /\ delete \in SUBSET Requests /\ sent \in [Requests -> Issue]
  /\ spent \in SUBSET Issue /\ tries \in [Issue -> Nat]

(* "retrying could replay a spent credential": the refresh token in a      *)
(* request is one the server cannot have rotated away, whatever replies    *)
(* were lost and whoever asked (refreshLocked).                            *)
NoReplay == refreshing # Nobody => tok.refresh \notin spent

(* "If another caller already replaced the token, no second refresh is     *)
(* made": any number of requests that meet the expiry or the rejection of  *)
(* one access token cause one refresh of it.                               *)
OneRefreshPerToken == \A k \in Issue : tries[k] <= 1

(* Once the wipe is done no working copy of a token or of the client       *)
(* secret is left, superseded ones and late arrivals included, and nothing *)
(* can bring one.                                                          *)
NothingKept ==
  stage = "wiped" =>
    /\ live \subseteq {<<"code", 1>>}
    /\ ~InSetup /\ refreshing = Nobody /\ tok = NoTok

(* "On any failure ... no credential is kept" (ConnectRemote): a consent   *)
(* that failed leaves no authorization code behind either.                 *)
CodeIsWiped == su = "failed" => <<"code", 1>> \notin live
=============================================================================
