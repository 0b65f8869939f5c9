------------------------------- MODULE Tokens -------------------------------
(***************************************************************************)
(* Who signs a group's tokens and whether a peer takes one: the control    *)
(* plane's issuer key (crypto/signing.service.ts), the key the group row   *)
(* publishes (governance.service.ts, createGroup), the copy a browser has  *)
(* pinned, and the first-message handshake of the peer that is shown a     *)
(* token (packages/p2p/src/auth-handshake.ts, packages/crypto/src/jwt.ts). *)
(* Signatures are the name of the key that made them; time is counted in   *)
(* ticks that tokens and the handshake's timer are measured with.          *)
(***************************************************************************)
EXTENDS Integers, Sequences

CONSTANTS
    MaxRestarts,    \* bound on restarts of the control plane
    MaxGovernance,  \* bound on switches of the proxy
    MaxTime,        \* bound on the clock
    Ttl,            \* jwtTtlSec
    Timeout,        \* the handshake's timeoutMs
    MaxSends        \* bound on messages on the channel

ASSUME TokenBoundAssumption ==
    MaxRestarts \in Nat /\ MaxGovernance \in Nat /\ MaxTime \in Nat /\ MaxSends \in Nat
ASSUME TimeAssumption == Ttl \in Nat \ {0} /\ Timeout \in Nat \ {0}

VARIABLES
    fromEnv,      \* DPE_SIGNING_* is set
    planeKey,     \* the control plane's key; every generated one is new
    restarts,
    row,          \* the group's controlMode, proxyPublicKey and issuerPublicKey
    switches,     \* calls of enableProxy and disableProxy
    now,
    pin,          \* the responder's pk_admin
    jwt,          \* the initiator's last token, or NoToken
    chan,         \* "new", "open" or "closed": the channel at the responder
    wire,         \* messages on the way to the responder
    sends,
    config,       \* adminPublicKey of the handshake that runs
    timer,        \* when the handshake's timer fires, 0 if it is not armed
    first,        \* no message has come yet
    checking,     \* the first message, while it is verified; else NoMessage
    result,       \* "none", "peer" or the reason of the rejection
    handler,      \* channel.onmessage: "prior" or "accept"
    taken         \* messages the prior handler got

planeVars == <<fromEnv, planeKey, restarts, row, switches>>
shakeVars == <<chan, config, timer, first, checking, result, handler>>
tokenVars == <<planeVars, now, pin, jwt, shakeVars, wire, sends, taken>>

OwnerKey == 0
NoKey == -1
PlaneKeys == 1..(MaxRestarts + 1)
Keys == {OwnerKey} \cup PlaneKeys
NoToken == [key |-> NoKey, exp |-> 0]
NoMessage == [kind |-> "none", token |-> NoToken, same |-> TRUE]
Tokens == [key : PlaneKeys, exp : 0..(MaxTime + Ttl)]
Messages ==
    [kind : {"auth"}, token : Tokens, same : BOOLEAN]
        \cup [kind : {"data"}, token : {NoToken}, same : {TRUE}]
Reasons == {"timeout", "invalid_envelope", "jwt_invalid", "node_mismatch", "not_first_message"}
settled == result # "none"

TokenInit ==
    /\ fromEnv \in BOOLEAN
    /\ planeKey = 1 /\ restarts = 0 /\ switches = 0
    /\ \E proxy \in BOOLEAN :   \* createGroup: issuerPublicKey is the plane's either way
           row = [mode |-> IF proxy THEN "proxy" ELSE "owner_direct",
                  proxy |-> IF proxy THEN 1 ELSE NoKey, issuer |-> 1]
    /\ now = 0
    /\ pin = 1
    /\ jwt = NoToken
    /\ chan = "new" /\ wire = <<>> /\ sends = 0
    /\ config = NoKey /\ timer = 0 /\ first = TRUE /\ checking = NoMessage
    /\ result = "none" /\ handler = "prior" /\ taken = <<>>
-----------------------------------------------------------------------------
(* The control plane *)

(* onModuleInit: the key of the environment, or a new one.                 *)
Restart ==
    /\ restarts < MaxRestarts
    /\ restarts' = restarts + 1
    /\ planeKey' = IF fromEnv THEN planeKey ELSE planeKey + 1
    /\ UNCHANGED <<fromEnv, row, switches, now, pin, jwt, shakeVars, wire, sends, taken>>

(* Mutant: the row goes on publishing the key it had.                      *)
enableProxyKeepsIssuer ==
    /\ switches < MaxGovernance
    /\ switches' = switches + 1
    /\ row' = [row EXCEPT !.mode = "proxy", !.proxy = planeKey]
    /\ UNCHANGED <<fromEnv, planeKey, restarts, now, pin, jwt, shakeVars, wire, sends, taken>>

enableProxy ==
    /\ switches < MaxGovernance
    /\ switches' = switches + 1
    /\ row' = [mode |-> "proxy", proxy |-> planeKey, issuer |-> planeKey]
    /\ UNCHANGED <<fromEnv, planeKey, restarts, now, pin, jwt, shakeVars, wire, sends, taken>>

disableProxy ==
    /\ switches < MaxGovernance
    /\ switches' = switches + 1
    /\ row' = [mode |-> "owner_direct", proxy |-> NoKey, issuer |-> OwnerKey]
    /\ UNCHANGED <<fromEnv, planeKey, restarts, now, pin, jwt, shakeVars, wire, sends, taken>>

(* issueJwt signs with the plane's key whatever the row says.              *)
issueJwt ==
    /\ jwt' = [key |-> planeKey, exp |-> now + Ttl]
    /\ UNCHANGED <<planeVars, now, pin, shakeVars, wire, sends, taken>>

(* A page load, an accepted invitation: the browser pins the row's key.    *)
PinKey ==
    /\ pin' = row.issuer
    /\ UNCHANGED <<planeVars, now, jwt, shakeVars, wire, sends, taken>>

Tick ==
    /\ now < MaxTime
    /\ now' = now + 1
    /\ UNCHANGED <<planeVars, pin, jwt, shakeVars, wire, sends, taken>>
-----------------------------------------------------------------------------
(* The channel and its handshake *)

(* Mutant: an open channel is not waited for.                              *)
AcceptWithoutTimer ==
    /\ chan = "new"
    /\ chan' = "open"
    /\ config' = pin
    /\ handler' = "accept"
    /\ UNCHANGED <<planeVars, now, pin, jwt, wire, sends, timer, first, checking, result, taken>>

(* The channel opens, and acceptAuthEnvelope takes over its messages; the  *)
(* clock must reach the end of its timer.                                  *)
Accept ==
    /\ chan = "new" /\ now + Timeout <= MaxTime
    /\ chan' = "open"
    /\ config' = pin
    /\ timer' = now + Timeout
    /\ handler' = "accept"
    /\ UNCHANGED <<planeVars, now, pin, jwt, wire, sends, first, checking, result, taken>>

(* The initiator's envelope; after a change of account its node id need    *)
(* not be the one its token was issued to.                                 *)
SendAuth(same) ==
    /\ chan = "open" /\ sends < MaxSends /\ jwt # NoToken
    /\ wire' = Append(wire, [kind |-> "auth", token |-> jwt, same |-> same])
    /\ sends' = sends + 1
    /\ UNCHANGED <<planeVars, now, pin, jwt, shakeVars, taken>>

SendData ==
    /\ chan = "open" /\ sends < MaxSends
    /\ wire' = Append(wire, [NoMessage EXCEPT !.kind = "data"])
    /\ sends' = sends + 1
    /\ UNCHANGED <<planeVars, now, pin, jwt, shakeVars, taken>>

(* Mutant: whoever ends last has the say.                                  *)
FinishAgain(r) ==
    /\ result' = r
    /\ timer' = 0
    /\ IF r = "peer" THEN handler' = "prior" /\ UNCHANGED chan
       ELSE chan' = "closed" /\ UNCHANGED handler

(* finish: whoever settles first; a rejection closes the channel, success  *)
(* gives the messages back to the handler that was there before.           *)
Finish(r) ==
    IF settled THEN UNCHANGED <<result, timer, handler, chan>>
    ELSE /\ result' = r
         /\ timer' = 0
         /\ IF r = "peer" THEN handler' = "prior" /\ UNCHANGED chan
            ELSE chan' = "closed" /\ UNCHANGED handler

TimerFires ==
    /\ timer # 0 /\ now >= timer
    /\ Finish("timeout")
    /\ UNCHANGED <<planeVars, now, pin, jwt, config, first, checking, wire, sends, taken>>

(* onmessage: the first one is looked at, and verified in its own time;    *)
(* another one before the end is an error.                                 *)
Receive ==
    /\ wire # <<>> /\ chan = "open"
    /\ wire' = Tail(wire)
    /\ IF handler = "prior"
       THEN taken' = Append(taken, Head(wire)) /\ UNCHANGED shakeVars
       ELSE /\ UNCHANGED <<taken, config>>
            /\ first' = FALSE
            /\ IF ~first
               THEN checking' = checking /\ Finish("not_first_message")
               ELSE IF Head(wire).kind = "auth"
               THEN checking' = Head(wire) /\ UNCHANGED <<result, timer, handler, chan>>
               ELSE checking' = checking /\ Finish("invalid_envelope")
    /\ UNCHANGED <<planeVars, now, pin, jwt, sends>>

(* verifyJwt against the pinned key at this moment, then the node id.      *)
Verdict(m) ==
    IF m.token.key # config \/ m.token.exp < now THEN "jwt_invalid"
    ELSE IF ~m.same THEN "node_mismatch" ELSE "peer"

Verified ==
    /\ checking # NoMessage
    /\ checking' = NoMessage
    /\ Finish(Verdict(checking))
    /\ UNCHANGED <<planeVars, now, pin, jwt, config, first, wire, sends, taken>>

TokenNext ==
    \/ Restart \/ enableProxy \/ disableProxy \/ issueJwt \/ PinKey \/ Tick
    \/ Accept \/ (\E same \in BOOLEAN : SendAuth(same)) \/ SendData
    \/ TimerFires \/ Receive \/ Verified

TokenSpec == TokenInit /\ [][TokenNext]_tokenVars

(* Time passes, timers fire and verifications end; that the other end      *)
(* sends anything is not owed.                                             *)
TokenFairness == WF_tokenVars(Tick) /\ WF_tokenVars(TimerFires) /\ WF_tokenVars(Verified)

TokenFairSpec == TokenSpec /\ TokenFairness
-----------------------------------------------------------------------------
TokenTypeOK ==
    /\ fromEnv \in BOOLEAN
    /\ planeKey \in PlaneKeys /\ restarts \in 0..MaxRestarts /\ planeKey <= restarts + 1
    /\ row \in [mode : {"proxy", "owner_direct"}, proxy : PlaneKeys \cup {NoKey}, issuer : Keys]
    /\ switches \in 0..MaxGovernance
    /\ now \in 0..MaxTime
    /\ pin \in Keys
    /\ jwt \in Tokens \cup {NoToken}
    /\ chan \in {"new", "open", "closed"}
    /\ wire \in Seq(Messages) /\ taken \in Seq(Messages)
    /\ sends \in 0..MaxSends
    /\ config \in Keys \cup {NoKey}
    /\ timer \in 0..(MaxTime + Timeout)
    /\ first \in BOOLEAN
    /\ checking \in Messages \cup {NoMessage}
    /\ result \in Reasons \cup {"none", "peer"}
    /\ handler \in {"prior", "accept"}
    /\ (timer # 0) = (handler = "accept" /\ ~settled)

(* A plane that keeps its key publishes it in every group it is the proxy  *)
(* of, however often it restarts and the owner switches: what it issues    *)
(* verifies for whoever pins the key of the row.                           *)
PublishedKeySigns ==
    fromEnv /\ row.mode = "proxy" => row.issuer = planeKey /\ row.proxy = planeKey

(* The outcome of a handshake is final and decides over the channel: the   *)
(* timer, a second message and the end of the verification come in any     *)
(* order, and never is an accepted channel closed by the handshake or one  *)
(* that was closed given back.                                             *)
OutcomeIsFinal ==
    [][settled => UNCHANGED <<result, chan, handler>>]_tokenVars

(* Only an accepted peer's messages reach the application, only after its  *)
(* envelope, and the peer is who its token was issued to, by the pinned    *)
(* key.                                                                    *)
NothingBeforeAuth ==
    /\ (chan # "new" /\ taken # <<>>) => result = "peer"
    /\ result = "peer" => chan = "open" /\ handler = "prior"

(* Every handshake that was started ends.                                  *)
HandshakeEnds == (handler = "accept") ~> settled

(* A token just issued verifies for whoever has just pinned the row's key. *)
IssuedVerifies == row.issuer = planeKey
==============================================================================
