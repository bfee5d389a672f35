------------------------------- MODULE CtpLogin -------------------------------
(***************************************************************************)
(* How the CTP trade gateway gets a session. The callback thread           *)
(* authenticates, logs in and records the session; the API itself connects *)
(* again. A login that is refused is tried again a minute later by a       *)
(* detached thread, which nothing tells what became of the connection      *)
(* meanwhile, and the process exits when three retries were refused.       *)
(*                                                                         *)
(* req_login_cnt_ is a plain int: the detached threads increment it while  *)
(* the callback thread resets it, so an increment is a load and a store.   *)
(* Not here: the settlement confirmation, which nothing waits for, and     *)
(* OnRspUserLogout, which answers a request that is never made.            *)
(***************************************************************************)
EXTENDS Naturals, Sequences

CONSTANTS
    Retries,     \* 3, how many retries are made before the process exits
    MaxRefused,  \* bound on the logins that are refused
    MaxBreaks,   \* bound on the connections that break
    MaxSession   \* bound on the logins that are granted

ASSUME CtpLoginAssumption ==
    /\ Retries \in Nat /\ MaxRefused \in Nat /\ MaxBreaks \in Nat /\ MaxSession \in Nat

VARIABLES
    api_ready,      \* api_ready_
    session,        \* ctp_session_id_ and what is kept with it; 0 is none
    req_login_cnt,  \* req_login_cnt_
    threads,        \* the detached threads
    exited,         \* "no", or for which failure the process exited
    link,           \* CTP: is the gateway connected
    epoch,          \* CTP: which connection this is, or was
    granted,        \* CTP: the session of this connection, 0 before a login
    wire,           \* requests on their way to CTP
    rsps,           \* callbacks the API has still to make
    refusals, sessions, \* how many logins were refused, and granted
    retried,        \* history: retries since the last login that succeeded
    stale           \* history: a retry woke on another connection than its refusal's

ctpVars == <<link, epoch, granted>>
countVars == <<refusals, sessions>>
loginVars == <<api_ready, session, req_login_cnt, threads, exited, ctpVars, wire, rsps,
               countVars, retried, stale>>

Thread == [n : 1..MaxRefused, epoch : 1..MaxBreaks + 1, at : {"check", "sleep", "store"}, got : Nat]
Rsp == [op : {"connected", "disconnected", "auth", "authrefused"}]
       \cup [op : {"login"}, session : 1..MaxSession] \cup [op : {"refused"}, n : 1..MaxRefused]
Rsps(op) == [op |-> op]

LoginTypeOK ==
    /\ api_ready \in BOOLEAN /\ session \in 0..MaxSession
    /\ req_login_cnt \in Nat
    /\ threads \subseteq Thread
    /\ exited \in {"no", "auth", "login"}
    /\ link \in BOOLEAN /\ epoch \in 0..MaxBreaks + 1 /\ granted \in 0..MaxSession
    /\ wire \in Seq({"auth", "login"}) /\ rsps \in Seq(Rsp)
    /\ refusals \in 0..MaxRefused /\ sessions \in 0..MaxSession
    /\ retried \in Nat /\ stale \in BOOLEAN

LoginInit ==
    /\ api_ready = FALSE /\ session = 0 /\ req_login_cnt = 0
    /\ threads = {} /\ exited = "no"
    /\ link = FALSE /\ epoch = 0 /\ granted = 0 /\ wire = <<>> /\ rsps = <<>>
    /\ refusals = 0 /\ sessions = 0 /\ retried = 0 /\ stale = FALSE

\* A request of the API, which fails without a connection; nobody looks.
Send(r) == wire' = IF link THEN Append(wire, r) ELSE wire

-----------------------------------------------------------------------------
(* The callback thread.                                                     *)

Callback(op) ==
    /\ exited = "no" /\ rsps # <<>> /\ Head(rsps).op = op
    /\ rsps' = Tail(rsps)
    /\ UNCHANGED <<ctpVars, countVars, stale>>

OnFrontConnected ==
    /\ Callback("connected")
    /\ Send("auth")
    /\ UNCHANGED <<api_ready, session, req_login_cnt, threads, exited, retried>>

\* DoLogin, or the end of the process.
OnRspAuthenticate ==
    \/ /\ Callback("auth")
       /\ Send("login")
       /\ UNCHANGED <<api_ready, session, req_login_cnt, threads, exited, retried>>
    \/ /\ Callback("authrefused")
       /\ exited' = "auth"
       /\ UNCHANGED <<api_ready, session, req_login_cnt, threads, wire, retried>>

FillConnectionInfo(s) ==
    /\ session' = s /\ req_login_cnt' = 0 /\ api_ready' = TRUE

\* Mutant of ClearConnectionInfo: the gateway stays ready.
ClearConnectionInfoReady == session' = 0 /\ UNCHANGED api_ready

ClearConnectionInfo == api_ready' = FALSE /\ session' = 0

\* A refusal detaches a thread; otherwise the session is recorded.
OnRspUserLogin ==
    \/ /\ Callback("refused")
       /\ threads' = threads \cup {[n |-> Head(rsps).n, epoch |-> epoch, at |-> "check", got |-> 0]}
       /\ UNCHANGED <<api_ready, session, req_login_cnt, exited, wire, retried>>
    \/ /\ Callback("login")
       /\ FillConnectionInfo(Head(rsps).session)
       /\ retried' = 0
       /\ UNCHANGED <<threads, exited, wire>>

OnFrontDisconnected ==
    /\ Callback("disconnected")
    /\ ClearConnectionInfo
    /\ UNCHANGED <<req_login_cnt, threads, exited, wire, retried>>

-----------------------------------------------------------------------------
(* The detached threads.                                                    *)

\* Mutant of Check: one retry too few.
CheckEarly(t) ==
    /\ exited = "no" /\ t.at = "check"
    /\ \/ /\ req_login_cnt < Retries - 1
          /\ threads' = (threads \ {t}) \cup {[t EXCEPT !.at = "sleep"]}
          /\ UNCHANGED exited
       \/ /\ req_login_cnt >= Retries - 1
          /\ exited' = "login" /\ UNCHANGED threads
    /\ UNCHANGED <<api_ready, session, req_login_cnt, ctpVars, wire, rsps, countVars, retried, stale>>

\* Sleeps if there is a retry left, else exits.
Check(t) ==
    /\ exited = "no" /\ t.at = "check"
    /\ \/ /\ req_login_cnt < Retries
          /\ threads' = (threads \ {t}) \cup {[t EXCEPT !.at = "sleep"]}
          /\ UNCHANGED exited
       \/ /\ req_login_cnt >= Retries
          /\ exited' = "login" /\ UNCHANGED threads
    /\ UNCHANGED <<api_ready, session, req_login_cnt, ctpVars, wire, rsps, countVars, retried, stale>>

\* A minute later: req_login_cnt_++ reads.
Wake(t) ==
    /\ exited = "no" /\ t.at = "sleep"
    /\ threads' = (threads \ {t}) \cup {[t EXCEPT !.at = "store", !.got = req_login_cnt]}
    /\ stale' = (stale \/ t.epoch # epoch)
    /\ UNCHANGED <<api_ready, session, req_login_cnt, exited, ctpVars, wire, rsps, countVars, retried>>

\* Mutant of Retry: only the count is changed.
RetryNot(t) ==
    /\ exited = "no" /\ t.at = "store"
    /\ req_login_cnt' = t.got + 1
    /\ threads' = threads \ {t}
    /\ retried' = retried + 1 /\ stale' = (stale \/ t.epoch # epoch)
    /\ UNCHANGED <<api_ready, session, exited, ctpVars, wire, rsps, countVars>>

\* ... and writes, and DoLogin is called, whatever the connection is now.
Retry(t) ==
    /\ exited = "no" /\ t.at = "store"
    /\ req_login_cnt' = t.got + 1
    /\ Send("login")
    /\ threads' = threads \ {t}
    /\ retried' = retried + 1 /\ stale' = (stale \/ t.epoch # epoch)
    /\ UNCHANGED <<api_ready, session, exited, ctpVars, rsps, countVars>>

-----------------------------------------------------------------------------
(* CTP and its API.                                                         *)

\* The API connects again after it called OnFrontDisconnected.
Connect ==
    /\ exited = "no" /\ ~link /\ \A i \in DOMAIN rsps : rsps[i].op # "disconnected"
    /\ link' = TRUE /\ epoch' = epoch + 1
    /\ rsps' = Append(rsps, Rsps("connected"))
    /\ UNCHANGED <<api_ready, session, req_login_cnt, threads, exited, granted, wire,
                   countVars, retried, stale>>

Break ==
    /\ exited = "no" /\ link /\ epoch <= MaxBreaks
    /\ link' = FALSE /\ granted' = 0 /\ wire' = <<>>
    /\ rsps' = Append(rsps, Rsps("disconnected"))
    /\ UNCHANGED <<api_ready, session, req_login_cnt, threads, exited, epoch, countVars, retried, stale>>

Served(r) ==
    /\ exited = "no" /\ wire # <<>> /\ Head(wire) = r
    /\ wire' = Tail(wire)
    /\ UNCHANGED <<api_ready, session, req_login_cnt, threads, exited, link, epoch, retried, stale>>

ServeAuth ==
    /\ Served("auth")
    /\ \E op \in {"auth", "authrefused"} : rsps' = Append(rsps, Rsps(op))
    /\ UNCHANGED <<granted, countVars>>

\* A login may be refused, a second one on the same connection too.
Grant ==
    /\ Served("login") /\ sessions < MaxSession
    /\ sessions' = sessions + 1 /\ granted' = sessions + 1
    /\ rsps' = Append(rsps, [op |-> "login", session |-> sessions + 1])
    /\ UNCHANGED refusals

Refuse ==
    /\ Served("login") /\ refusals < MaxRefused
    /\ refusals' = refusals + 1
    /\ rsps' = Append(rsps, [op |-> "refused", n |-> refusals + 1])
    /\ UNCHANGED <<granted, sessions>>

-----------------------------------------------------------------------------
Spi == OnFrontConnected \/ OnRspAuthenticate \/ OnRspUserLogin \/ OnFrontDisconnected
Detached == \E t \in threads : Check(t) \/ Wake(t) \/ Retry(t)
Ctp == Connect \/ ServeAuth \/ Grant \/ Refuse

LoginNext ==
    \/ OnFrontConnected \/ OnRspAuthenticate \/ OnRspUserLogin \/ OnFrontDisconnected
    \/ \E t \in threads : Check(t)
    \/ \E t \in threads : Wake(t)
    \/ \E t \in threads : Retry(t)
    \/ Connect \/ Break \/ ServeAuth \/ Grant \/ Refuse

LoginSpec == LoginInit /\ [][LoginNext]_loginVars

\* The threads run, the API connects, and CTP answers, one way or the other.
FairSpec == LoginSpec /\ WF_loginVars(Spi) /\ WF_loginVars(Detached) /\ WF_loginVars(Ctp)

-----------------------------------------------------------------------------
(* Properties.                                                              *)

Due(op) == \E i \in DOMAIN rsps : rsps[i].op = op

\* InsertOrder finds the gateway ready in the session CTP granted last on this
\* connection, unless the callback that brings another or takes it back is on its way.
ReadyInSession == exited = "no" /\ api_ready =>
    (session # 0 /\ session = granted) \/ Due("login") \/ Due("disconnected")

\* The end of a connection is the last that is told of it, before the next one begins.
EndIsLast ==
    /\ link => epoch >= 1
    /\ ~link => wire = <<>> /\ epoch <= MaxBreaks
    /\ ~link /\ rsps # <<>> => epoch >= 1 /\ rsps[Len(rsps)].op = "disconnected"
    /\ \A i \in DOMAIN rsps : rsps[i].op = "disconnected" => ~link /\ i = Len(rsps)
    /\ \A t \in threads : t.epoch <= epoch

\* The last login that is due is the one that CTP granted last.
Ends == {"login", "disconnected"}
ToldLast ==
    \A i \in DOMAIN rsps :
        rsps[i].op = "login" /\ (\A j \in DOMAIN rsps : j > i => rsps[j].op \notin Ends) =>
            rsps[i].session = granted

\* Of one connection only one thing is under way, a request, a callback or a retry ...
OneUnderWay ==
    ~stale =>
        /\ Len(wire) <= 1
        /\ \A i, j \in DOMAIN rsps : rsps[i].op # "disconnected" /\ rsps[j].op # "disconnected" => i = j
        /\ \A t, u \in threads : t.epoch = epoch /\ u.epoch = epoch => t = u
        /\ \A i \in DOMAIN rsps : rsps[i].op # "disconnected" => wire = <<>>
        /\ \A t \in threads : t.epoch = epoch =>
               wire = <<>> /\ \A i \in DOMAIN rsps : rsps[i].op = "disconnected"

\* ... so that no increment of req_login_cnt_ undoes the reset by a login.
CountsRetries ==
    ~stale =>
        /\ req_login_cnt <= retried
        /\ \A t \in threads : t.epoch = epoch /\ t.at = "store" => t.got <= retried

\* The gateway is ready in its session only, and counts its retries.
Inv == LoginTypeOK /\ EndIsLast /\ ToldLast /\ OneUnderWay /\ CountsRetries /\ ReadyInSession

\* The process gives up only after as many retries as it promises since it last was
\* logged in, as long as no retry woke on another connection than its refusal's.
GivesUpAfterRetries == exited = "login" /\ ~stale => retried >= Retries

\* A connection that stays up ends in a session or in the end of the process: a refused
\* login is tried again.
LoginDecided == link ~> (~link \/ api_ready \/ exited # "no")
=============================================================================
