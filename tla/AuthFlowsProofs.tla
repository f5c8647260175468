--------------------------- MODULE AuthFlowsProofs ---------------------------
(***************************************************************************)
(* Theorems about AuthFlows, for any number of calls and of faults: type   *)
(* correctness, that the flow implements AuthRequest, and that a rejection *)
(* of a call that is connected has a reason.                               *)
(***************************************************************************)
EXTENDS AuthFlows, TLAPS

USE DEF None

Ids == {"connect", "first", "again"}

LEMMA HandlerParts == \A h \in Handlers : h[1] \in Auths /\ h[2] \in Ids
BY DEF Handlers, Ids

LEMMA HandlerOf == \A a \in Auths, n \in Ids : <<a, n>> \in Handlers /\ <<a, n>>[1] = a
BY DEF Handlers, Ids

(***************************************************************************)
(* TypeOK says that no handler runs for a call not yet made.  For that it  *)
(* takes that the call has made the window the handler comes from; and     *)
(* that syncs are started for connections only, that the handler has come  *)
(* to it by way of the row.                                                *)
(***************************************************************************)

Types ==
    /\ mode \in Modes /\ config \in BOOLEAN
    /\ status \in Statuses /\ win \in Auths \union {None} /\ tm \in Auths \union {None}
    /\ timers \subseteq Auths /\ promise \in [Auths -> Promises]
    /\ window \in [Auths -> Windows] /\ msg \in [Auths -> Messages]
    /\ clients \subseteq Auths /\ task \in [Handlers -> Locations]
    /\ writing \subseteq Auths /\ session \subseteq Auths
    /\ connected \subseteq Auths /\ begun \subseteq Auths
    /\ faults \in 0..MaxFaults /\ reason \in [Auths -> Reasons \union {"none"}]

\* Nothing happens for a call before the page has made it.
Called ==
    /\ \A h \in Handlers : task[h] # "idle" => promise[h[1]] # "none"
    /\ \A a \in Auths : window[a] # "none" => promise[a] # "none"
    /\ \A a \in begun : promise[a] # "none"

\* The row comes before the syncs, and both before the success is told; in OAuth1
\* the row only began to be written.
RowFirst ==
    /\ started \subseteq connected /\ swallowed \subseteq connected
    /\ writing \subseteq begun
    /\ \A h \in Handlers :
          /\ task[h] = "initiate" => h[1] \in connected
          /\ task[h] \in {"upsert", "initiate"} => mode # "OAuth1"

Ready(a) ==
    IF mode = "OAuth1" THEN a \in begun ELSE a \in connected \cap (started \union swallowed)

ToldLast ==
    /\ \A h \in Handlers : task[h] = "answer" => Ready(h[1])
    /\ \A a \in Auths : msg[a] = "success" => Ready(a)

FlowInv == Types /\ Called /\ RowFirst /\ ToldLast

LEMMA InitFlowInv == Init => FlowInv
BY FaultsAssumption DEF Init, FlowInv, Types, Called, RowFirst, ToldLast, Statuses, Promises,
                        Windows, Messages, Locations

LEMMA NextTypes == FlowInv /\ [Next]_vars => Types'
<1> SUFFICES ASSUME FlowInv, [Next]_vars PROVE Types'
  OBVIOUS
<1> USE DEF FlowInv, Types, Ids, Reasons, Messages, Windows, Promises, Statuses, Locations,
           page, server, rows, flow, At, Goto, Proceed, Fails, Respond, NotifyErr, NotifySuccess,
           Notify, Shown, Settled, Because
<1> faults \in Nat /\ MaxFaults \in Nat
  BY FaultsAssumption
<1>1. ASSUME NEW a \in Auths, FetchFails(a) PROVE Types'
  BY <1>1, HandlerParts, HandlerOf DEF FetchFails
<1>2. ASSUME NEW a \in Auths, OpenModal(a) PROVE Types'
  BY <1>2, HandlerParts, HandlerOf DEF OpenModal
<1>3. ASSUME NEW a \in Auths, SuccessHandler(a) PROVE Types'
  BY <1>3, HandlerParts, HandlerOf DEF SuccessHandler, Handle
<1>4. ASSUME NEW a \in Auths, ErrorHandler(a) PROVE Types'
  BY <1>4, HandlerParts, HandlerOf DEF ErrorHandler, Handle
<1>5. ASSUME NEW a \in Auths, Poll(a) PROVE Types'
  BY <1>5, HandlerParts, HandlerOf DEF Poll
<1>6. ASSUME NEW a \in Auths, Auth(a) PROVE Types'
  BY <1>6, HandlerParts, HandlerOf DEF Auth, IsNext
<1>7. ASSUME NEW a \in Auths, ApiAuth(a) PROVE Types'
  BY <1>7, HandlerParts, HandlerOf DEF ApiAuth, IsNext
<1>8. ASSUME NEW a \in Auths, Closes(a) PROVE Types'
  BY <1>8, HandlerParts, HandlerOf DEF Closes, Open
<1>9. ASSUME NEW a \in Auths, CallsBack(a) PROVE Types'
  BY <1>9, HandlerParts, HandlerOf DEF CallsBack, Callback
<1>10. ASSUME NEW a \in Auths, Reloads(a) PROVE Types'
  <2>1. faults' \in 0..MaxFaults
    BY <1>10, FaultsAssumption DEF Reloads, Fault
  <2>2. task' \in [Handlers -> Locations] /\ window' \in [Auths -> Windows]
    BY <1>10, HandlerOf DEF Reloads, Callback
  <2> QED
    BY <1>10, <2>1, <2>2 DEF Reloads, Callback
<1>11. ASSUME NEW a \in Auths, AddClient(a) PROVE Types'
  BY <1>11, HandlerParts, HandlerOf DEF AddClient
<1>12. ASSUME NEW a \in Auths, Written(a) PROVE Types'
  BY <1>12, HandlerParts, HandlerOf DEF Written
<1>13. ASSUME NEW h \in Handlers, OauthRequest(h) PROVE Types'
  BY <1>13, HandlerParts, HandlerOf DEF OauthRequest
<1>14. ASSUME NEW h \in Handlers, Oauth2Request(h) \/ AppRequest(h) PROVE Types'
  BY <1>14, HandlerParts, HandlerOf DEF Oauth2Request, AppRequest, Redirect
<1>15. ASSUME NEW h \in Handlers, Oauth1Request(h) PROVE Types'
  BY <1>15, HandlerParts, HandlerOf DEF Oauth1Request, Redirect, Hang
<1>16. ASSUME NEW h \in Handlers, OauthCallback(h) PROVE Types'
  BY <1>16, HandlerParts, HandlerOf DEF OauthCallback, Hang
<1>17. ASSUME NEW h \in Handlers, Connect(h) PROVE Types'
  BY <1>17, HandlerParts, HandlerOf DEF Connect, Refuse, Hang
<1>18. ASSUME NEW h \in Handlers, DeleteSession(h) PROVE Types'
  BY <1>18, HandlerParts, HandlerOf DEF DeleteSession, Hang
<1>19. ASSUME NEW h \in Handlers, Oauth2Callback(h) PROVE Types'
  BY <1>19, HandlerParts, HandlerOf DEF Oauth2Callback, Hang
<1>20. ASSUME NEW h \in Handlers, Oauth1Callback(h) PROVE Types'
  BY <1>20, HandlerParts, HandlerOf DEF Oauth1Callback, Hang
<1>21. ASSUME NEW h \in Handlers, AppCallback(h) PROVE Types'
  BY <1>21, HandlerParts, HandlerOf DEF AppCallback, Refuse
<1>22. ASSUME NEW h \in Handlers, ApiKey(h) \/ Basic(h) \/ Create(h) PROVE Types'
  BY <1>22, HandlerParts, HandlerOf DEF ApiKey, Basic, Create, Checks
<1>23. ASSUME NEW h \in Handlers, Upsert(h) PROVE Types'
  BY <1>23, HandlerParts, HandlerOf DEF Upsert
<1>24. ASSUME NEW h \in Handlers, Initiate(h) PROVE Types'
  BY <1>24, HandlerParts, HandlerOf DEF Initiate
<1>25. ASSUME NEW h \in Handlers, Answer(h) PROVE Types'
  BY <1>25, HandlerParts, HandlerOf DEF Answer
<1>26. CASE DeleteConfig
  <2>1. faults' \in 0..MaxFaults
    BY <1>26, FaultsAssumption DEF DeleteConfig, Fault
  <2>2. config' \in BOOLEAN
    BY <1>26, Zenon DEF DeleteConfig
  <2> QED
    BY <1>26, <2>1, <2>2 DEF DeleteConfig
<1>27. CASE Restart
  BY <1>27, HandlerParts, HandlerOf DEF Restart, Fault, Running
<1>28. CASE UNCHANGED vars
  BY <1>28, HandlerParts, HandlerOf DEF vars
<1> HIDE DEF Types
<1> QED
  BY <1>1, <1>2, <1>3, <1>4, <1>5, <1>6, <1>7, <1>8, <1>9, <1>10, <1>11, <1>12, <1>13, <1>14,
     <1>15, <1>16, <1>17, <1>18, <1>19, <1>20, <1>21, <1>22, <1>23, <1>24, <1>25, <1>26,
     <1>27, <1>28 DEF Next, Page, User, Server

LEMMA NextCalled == FlowInv /\ [Next]_vars => Called'
<1> SUFFICES ASSUME FlowInv, [Next]_vars PROVE Called'
  OBVIOUS
<1> USE DEF FlowInv, Types, Called, Ids, PopupModes, page, server, rows, flow, At, Goto, Proceed,
           Fails, Respond, NotifyErr, NotifySuccess, Notify, Shown, Settled, Because
<1>1. ASSUME NEW a \in Auths, FetchFails(a) PROVE Called'
  BY <1>1, HandlerParts, HandlerOf DEF FetchFails
<1>2. ASSUME NEW a \in Auths, OpenModal(a) PROVE Called'
  BY <1>2, HandlerParts, HandlerOf DEF OpenModal
<1>3. ASSUME NEW a \in Auths, SuccessHandler(a) PROVE Called'
  BY <1>3, HandlerParts, HandlerOf DEF SuccessHandler, Handle
<1>4. ASSUME NEW a \in Auths, ErrorHandler(a) PROVE Called'
  BY <1>4, HandlerParts, HandlerOf DEF ErrorHandler, Handle
<1>5. ASSUME NEW a \in Auths, Poll(a) PROVE Called'
  BY <1>5, HandlerParts, HandlerOf DEF Poll
<1>6. ASSUME NEW a \in Auths, Auth(a) PROVE Called'
  BY <1>6, HandlerParts, HandlerOf DEF Auth, IsNext
<1>7. ASSUME NEW a \in Auths, ApiAuth(a) PROVE Called'
  BY <1>7, HandlerParts, HandlerOf DEF ApiAuth, IsNext
<1>8. ASSUME NEW a \in Auths, Closes(a) PROVE Called'
  BY <1>8, HandlerParts, HandlerOf DEF Closes, Open
<1>9. ASSUME NEW a \in Auths, CallsBack(a) PROVE Called'
  BY <1>9, HandlerParts, HandlerOf DEF CallsBack, Callback
<1>10. ASSUME NEW a \in Auths, Reloads(a) PROVE Called'
  BY <1>10, HandlerParts, HandlerOf DEF Reloads, Callback, Fault
<1>11. ASSUME NEW a \in Auths, AddClient(a) PROVE Called'
  BY <1>11, HandlerParts, HandlerOf DEF AddClient
<1>12. ASSUME NEW a \in Auths, Written(a) PROVE Called'
  BY <1>12, HandlerParts, HandlerOf DEF Written
<1>13. ASSUME NEW h \in Handlers, OauthRequest(h) PROVE Called'
  BY <1>13, HandlerParts, HandlerOf DEF OauthRequest
<1>14. ASSUME NEW h \in Handlers, Oauth2Request(h) \/ AppRequest(h) PROVE Called'
  BY <1>14, HandlerParts, HandlerOf DEF Oauth2Request, AppRequest, Redirect
<1>15. ASSUME NEW h \in Handlers, Oauth1Request(h) PROVE Called'
  BY <1>15, HandlerParts, HandlerOf DEF Oauth1Request, Redirect, Hang
<1>16. ASSUME NEW h \in Handlers, OauthCallback(h) PROVE Called'
  BY <1>16, HandlerParts, HandlerOf DEF OauthCallback, Hang
<1>17. ASSUME NEW h \in Handlers, Connect(h) PROVE Called'
  BY <1>17, HandlerParts, HandlerOf DEF Connect, Refuse, Hang
<1>18. ASSUME NEW h \in Handlers, DeleteSession(h) PROVE Called'
  BY <1>18, HandlerParts, HandlerOf DEF DeleteSession, Hang
<1>19. ASSUME NEW h \in Handlers, Oauth2Callback(h) PROVE Called'
  BY <1>19, HandlerParts, HandlerOf DEF Oauth2Callback, Hang
<1>20. ASSUME NEW h \in Handlers, Oauth1Callback(h) PROVE Called'
  BY <1>20, HandlerParts, HandlerOf DEF Oauth1Callback, Hang
<1>21. ASSUME NEW h \in Handlers, AppCallback(h) PROVE Called'
  BY <1>21, HandlerParts, HandlerOf DEF AppCallback, Refuse
<1>22. ASSUME NEW h \in Handlers, ApiKey(h) \/ Basic(h) \/ Create(h) PROVE Called'
  BY <1>22, HandlerParts, HandlerOf DEF ApiKey, Basic, Create, Checks
<1>23. ASSUME NEW h \in Handlers, Upsert(h) PROVE Called'
  BY <1>23, HandlerParts, HandlerOf DEF Upsert
<1>24. ASSUME NEW h \in Handlers, Initiate(h) PROVE Called'
  BY <1>24, HandlerParts, HandlerOf DEF Initiate
<1>25. ASSUME NEW h \in Handlers, Answer(h) PROVE Called'
  BY <1>25, HandlerParts, HandlerOf DEF Answer
<1>26. CASE DeleteConfig
  BY <1>26, HandlerParts, HandlerOf DEF DeleteConfig, Fault
<1>27. CASE Restart
  BY <1>27, HandlerParts, HandlerOf DEF Restart, Fault, Running
<1>28. CASE UNCHANGED vars
  BY <1>28, HandlerParts, HandlerOf DEF vars
<1> HIDE DEF Called
<1> QED
  BY <1>1, <1>2, <1>3, <1>4, <1>5, <1>6, <1>7, <1>8, <1>9, <1>10, <1>11, <1>12, <1>13, <1>14,
     <1>15, <1>16, <1>17, <1>18, <1>19, <1>20, <1>21, <1>22, <1>23, <1>24, <1>25, <1>26,
     <1>27, <1>28 DEF Next, Page, User, Server

LEMMA NextRowFirst == FlowInv /\ [Next]_vars => RowFirst'
<1> SUFFICES ASSUME FlowInv, [Next]_vars PROVE RowFirst'
  OBVIOUS
<1> USE DEF FlowInv, Types, RowFirst, page, server, rows, flow, At, Goto, Proceed, Fails, Respond,
           NotifyErr, NotifySuccess, Notify, Shown, Settled, Because
<1>1. ASSUME NEW a \in Auths, FetchFails(a) PROVE RowFirst'
  BY <1>1, HandlerParts, HandlerOf DEF FetchFails
<1>2. ASSUME NEW a \in Auths, OpenModal(a) PROVE RowFirst'
  BY <1>2, HandlerParts, HandlerOf DEF OpenModal
<1>3. ASSUME NEW a \in Auths, SuccessHandler(a) PROVE RowFirst'
  BY <1>3, HandlerParts, HandlerOf DEF SuccessHandler, Handle
<1>4. ASSUME NEW a \in Auths, ErrorHandler(a) PROVE RowFirst'
  BY <1>4, HandlerParts, HandlerOf DEF ErrorHandler, Handle
<1>5. ASSUME NEW a \in Auths, Poll(a) PROVE RowFirst'
  BY <1>5, HandlerParts, HandlerOf DEF Poll
<1>6. ASSUME NEW a \in Auths, Auth(a) PROVE RowFirst'
  BY <1>6, HandlerParts, HandlerOf DEF Auth, IsNext
<1>7. ASSUME NEW a \in Auths, ApiAuth(a) PROVE RowFirst'
  BY <1>7, HandlerParts, HandlerOf DEF ApiAuth, IsNext
<1>8. ASSUME NEW a \in Auths, Closes(a) PROVE RowFirst'
  BY <1>8, HandlerParts, HandlerOf DEF Closes, Open
<1>9. ASSUME NEW a \in Auths, CallsBack(a) PROVE RowFirst'
  BY <1>9, HandlerParts, HandlerOf DEF CallsBack, Callback
<1>10. ASSUME NEW a \in Auths, Reloads(a) PROVE RowFirst'
  BY <1>10, HandlerParts, HandlerOf DEF Reloads, Callback, Fault
<1>11. ASSUME NEW a \in Auths, AddClient(a) PROVE RowFirst'
  BY <1>11, HandlerParts, HandlerOf DEF AddClient
<1>12. ASSUME NEW a \in Auths, Written(a) PROVE RowFirst'
  BY <1>12, HandlerParts, HandlerOf DEF Written
<1>13. ASSUME NEW h \in Handlers, OauthRequest(h) PROVE RowFirst'
  BY <1>13, HandlerParts, HandlerOf DEF OauthRequest
<1>14. ASSUME NEW h \in Handlers, Oauth2Request(h) \/ AppRequest(h) PROVE RowFirst'
  BY <1>14, HandlerParts, HandlerOf DEF Oauth2Request, AppRequest, Redirect
<1>15. ASSUME NEW h \in Handlers, Oauth1Request(h) PROVE RowFirst'
  BY <1>15, HandlerParts, HandlerOf DEF Oauth1Request, Redirect, Hang
<1>16. ASSUME NEW h \in Handlers, OauthCallback(h) PROVE RowFirst'
  BY <1>16, HandlerParts, HandlerOf DEF OauthCallback, Hang
<1>17. ASSUME NEW h \in Handlers, Connect(h) PROVE RowFirst'
  BY <1>17, HandlerParts, HandlerOf DEF Connect, Refuse, Hang
<1>18. ASSUME NEW h \in Handlers, DeleteSession(h) PROVE RowFirst'
  BY <1>18, HandlerParts, HandlerOf DEF DeleteSession, Hang
<1>19. ASSUME NEW h \in Handlers, Oauth2Callback(h) PROVE RowFirst'
  BY <1>19, HandlerParts, HandlerOf DEF Oauth2Callback, Hang
<1>20. ASSUME NEW h \in Handlers, Oauth1Callback(h) PROVE RowFirst'
  BY <1>20, HandlerParts, HandlerOf DEF Oauth1Callback, Hang
<1>21. ASSUME NEW h \in Handlers, AppCallback(h) PROVE RowFirst'
  BY <1>21, HandlerParts, HandlerOf DEF AppCallback, Refuse
<1>22. ASSUME NEW h \in Handlers, ApiKey(h) \/ Basic(h) \/ Create(h) PROVE RowFirst'
  BY <1>22, HandlerParts, HandlerOf DEF ApiKey, Basic, Create, Checks
<1>23. ASSUME NEW h \in Handlers, Upsert(h) PROVE RowFirst'
  BY <1>23, HandlerParts, HandlerOf DEF Upsert
<1>24. ASSUME NEW h \in Handlers, Initiate(h) PROVE RowFirst'
  BY <1>24, HandlerParts, HandlerOf DEF Initiate
<1>25. ASSUME NEW h \in Handlers, Answer(h) PROVE RowFirst'
  BY <1>25, HandlerParts, HandlerOf DEF Answer
<1>26. CASE DeleteConfig
  BY <1>26, HandlerParts, HandlerOf DEF DeleteConfig, Fault
<1>27. CASE Restart
  BY <1>27, HandlerParts, HandlerOf DEF Restart, Fault, Running
<1>28. CASE UNCHANGED vars
  BY <1>28, HandlerParts, HandlerOf DEF vars
<1> HIDE DEF RowFirst
<1> QED
  BY <1>1, <1>2, <1>3, <1>4, <1>5, <1>6, <1>7, <1>8, <1>9, <1>10, <1>11, <1>12, <1>13, <1>14,
     <1>15, <1>16, <1>17, <1>18, <1>19, <1>20, <1>21, <1>22, <1>23, <1>24, <1>25, <1>26,
     <1>27, <1>28 DEF Next, Page, User, Server

LEMMA NextToldLast == FlowInv /\ [Next]_vars => ToldLast'
<1> SUFFICES ASSUME FlowInv, [Next]_vars PROVE ToldLast'
  OBVIOUS
<1> USE DEF FlowInv, Types, RowFirst, ToldLast, Ready, page, server, rows, flow, At, Goto, Proceed, Fails,
           Respond, NotifyErr, NotifySuccess, Notify, Shown, Settled, Because
<1>1. ASSUME NEW a \in Auths, FetchFails(a) PROVE ToldLast'
  BY <1>1, HandlerParts, HandlerOf DEF FetchFails
<1>2. ASSUME NEW a \in Auths, OpenModal(a) PROVE ToldLast'
  BY <1>2, HandlerParts, HandlerOf DEF OpenModal
<1>3. ASSUME NEW a \in Auths, SuccessHandler(a) PROVE ToldLast'
  BY <1>3, HandlerParts, HandlerOf DEF SuccessHandler, Handle
<1>4. ASSUME NEW a \in Auths, ErrorHandler(a) PROVE ToldLast'
  BY <1>4, HandlerParts, HandlerOf DEF ErrorHandler, Handle
<1>5. ASSUME NEW a \in Auths, Poll(a) PROVE ToldLast'
  BY <1>5, HandlerParts, HandlerOf DEF Poll
<1>6. ASSUME NEW a \in Auths, Auth(a) PROVE ToldLast'
  BY <1>6, HandlerParts, HandlerOf DEF Auth, IsNext
<1>7. ASSUME NEW a \in Auths, ApiAuth(a) PROVE ToldLast'
  BY <1>7, HandlerParts, HandlerOf DEF ApiAuth, IsNext
<1>8. ASSUME NEW a \in Auths, Closes(a) PROVE ToldLast'
  BY <1>8, HandlerParts, HandlerOf DEF Closes, Open
<1>9. ASSUME NEW a \in Auths, CallsBack(a) PROVE ToldLast'
  BY <1>9, HandlerParts, HandlerOf DEF CallsBack, Callback
<1>10. ASSUME NEW a \in Auths, Reloads(a) PROVE ToldLast'
  BY <1>10, HandlerParts, HandlerOf DEF Reloads, Callback, Fault
<1>11. ASSUME NEW a \in Auths, AddClient(a) PROVE ToldLast'
  BY <1>11, HandlerParts, HandlerOf DEF AddClient
<1>12. ASSUME NEW a \in Auths, Written(a) PROVE ToldLast'
  BY <1>12, HandlerParts, HandlerOf DEF Written
<1>13. ASSUME NEW h \in Handlers, OauthRequest(h) PROVE ToldLast'
  BY <1>13, HandlerParts, HandlerOf DEF OauthRequest
<1>14. ASSUME NEW h \in Handlers, Oauth2Request(h) \/ AppRequest(h) PROVE ToldLast'
  BY <1>14, HandlerParts, HandlerOf DEF Oauth2Request, AppRequest, Redirect
<1>15. ASSUME NEW h \in Handlers, Oauth1Request(h) PROVE ToldLast'
  BY <1>15, HandlerParts, HandlerOf DEF Oauth1Request, Redirect, Hang
<1>16. ASSUME NEW h \in Handlers, OauthCallback(h) PROVE ToldLast'
  BY <1>16, HandlerParts, HandlerOf DEF OauthCallback, Hang
<1>17. ASSUME NEW h \in Handlers, Connect(h) PROVE ToldLast'
  BY <1>17, HandlerParts, HandlerOf DEF Connect, Refuse, Hang
<1>18. ASSUME NEW h \in Handlers, DeleteSession(h) PROVE ToldLast'
  BY <1>18, HandlerParts, HandlerOf DEF DeleteSession, Hang
<1>19. ASSUME NEW h \in Handlers, Oauth2Callback(h) PROVE ToldLast'
  BY <1>19, HandlerParts, HandlerOf DEF Oauth2Callback, Hang
<1>20. ASSUME NEW h \in Handlers, Oauth1Callback(h) PROVE ToldLast'
  BY <1>20, HandlerParts, HandlerOf DEF Oauth1Callback, Hang
<1>21. ASSUME NEW h \in Handlers, AppCallback(h) PROVE ToldLast'
  BY <1>21, HandlerParts, HandlerOf DEF AppCallback, Refuse
<1>22. ASSUME NEW h \in Handlers, ApiKey(h) \/ Basic(h) \/ Create(h) PROVE ToldLast'
  BY <1>22, HandlerParts, HandlerOf DEF ApiKey, Basic, Create, Checks
<1>23. ASSUME NEW h \in Handlers, Upsert(h) PROVE ToldLast'
  BY <1>23, HandlerParts, HandlerOf DEF Upsert
<1>24. ASSUME NEW h \in Handlers, Initiate(h) PROVE ToldLast'
  <2>1. h \in Handlers /\ h[1] \in connected /\ mode # "OAuth1" /\ mode' = mode
    BY <1>24 DEF Initiate
  <2>2. \A a \in Auths : Ready(a) => Ready(a)'
    BY <1>24 DEF Initiate
  <2>3. CASE Fails(h) /\ UNCHANGED <<started, swallowed>>
    BY <1>24, <2>1, <2>3, HandlerParts, HandlerOf DEF Initiate
  <2>4. CASE Proceed(h, "initiate", "answer")
    <3>1. Ready(h[1])'
      BY <1>24, <2>1, <2>4 DEF Initiate
    <3> HIDE DEF Ready
    <3> QED
      BY <1>24, <2>2, <2>4, <3>1, HandlerParts DEF Initiate
  <2> QED
    BY <1>24, <2>3, <2>4 DEF Initiate
<1>25. ASSUME NEW h \in Handlers, Answer(h) PROVE ToldLast'
  BY <1>25, HandlerParts, HandlerOf DEF Answer
<1>26. CASE DeleteConfig
  BY <1>26, HandlerParts, HandlerOf DEF DeleteConfig, Fault
<1>27. CASE Restart
  BY <1>27, HandlerParts, HandlerOf DEF Restart, Fault, Running
<1>28. CASE UNCHANGED vars
  BY <1>28, HandlerParts, HandlerOf DEF vars
<1> HIDE DEF ToldLast
<1> QED
  BY <1>1, <1>2, <1>3, <1>4, <1>5, <1>6, <1>7, <1>8, <1>9, <1>10, <1>11, <1>12, <1>13, <1>14,
     <1>15, <1>16, <1>17, <1>18, <1>19, <1>20, <1>21, <1>22, <1>23, <1>24, <1>25, <1>26,
     <1>27, <1>28 DEF Next, Page, User, Server

LEMMA FlowInvariant == Init /\ [][Next]_vars => []FlowInv
<1>1. Init => FlowInv
  BY InitFlowInv
<1>2. FlowInv /\ [Next]_vars => FlowInv'
  BY NextTypes, NextCalled, NextRowFirst, NextToldLast DEF FlowInv
<1> QED
  BY <1>1, <1>2, PTL

\* Every variable keeps its range, no handler runs for a call that the page has not
\* made, and syncs are started for connections that have been written only.
THEOREM TypeCorrect == Spec => []TypeOK
<1>1. FlowInv => TypeOK
  BY DEF FlowInv, Types, Called, RowFirst, TypeOK
<1> QED
  BY <1>1, FlowInvariant, PTL DEF Spec

(***************************************************************************)
(* The refinement.  A step settles at most one promise, writes rows of     *)
(* calls that have been made, or starts the syncs of one connection.       *)
(***************************************************************************)

RequestUnchanged == UNCHANGED <<mode, promise, connected, flow>>

LEMMA Stuttering == RequestUnchanged => UNCHANGED Request!vars
BY DEF RequestUnchanged, flow, Request!vars, Request!starts

LEMMA Settling ==
  ASSUME FlowInv, NEW a \in Auths, NEW outcome \in {"resolved", "rejected"},
         promise' = Settled(a, outcome), UNCHANGED <<mode, connected, flow>>,
         outcome = "resolved" => Ready(a)
  PROVE  [Request!Next]_(Request!vars)
<1>1. CASE promise[a] = "pending"
  <2>1. promise' = [promise EXCEPT ![a] = outcome]
    BY <1>1 DEF Settled
  <2>2. Request!Resolve(a) \/ Request!Reject(a)
    BY <1>1, <2>1 DEF Ready, flow, Request!Resolve, Request!Reject, Request!Settle,
       Request!starts
  <2> QED
    BY <2>2 DEF Request!Next
<1>2. CASE promise[a] # "pending"
  BY <1>2, Stuttering DEF Settled, FlowInv, Types, RequestUnchanged
<1> QED
  BY <1>1, <1>2

LEMMA Writing ==
  ASSUME FlowInv, NEW w \in SUBSET Auths, \A a \in w : promise[a] # "none",
         mode = "OAuth1" => w \subseteq begun,
         connected' = connected \union w, UNCHANGED <<mode, promise, flow>>
  PROVE  [Request!Next]_(Request!vars)
BY DEF flow, Request!Next, Request!Write, Request!starts

LEMMA InitRefines == Init => Request!Init
BY DEF Init, Request!Init

LEMMA NextRefines == FlowInv /\ [Next]_vars => [Request!Next]_(Request!vars)
<1> SUFFICES ASSUME FlowInv, [Next]_vars PROVE [Request!Next]_(Request!vars)
  OBVIOUS
<1> USE DEF page, server, rows, flow, Proceed, Fails, Respond, NotifyErr, NotifySuccess,
           Notify, RequestUnchanged, Request!starts
<1>1. ASSUME NEW a \in Auths, FetchFails(a) PROVE [Request!Next]_(Request!vars)
  BY <1>1, HandlerParts, Stuttering, Settling, Writing DEF FetchFails
<1>2. ASSUME NEW a \in Auths, OpenModal(a) PROVE [Request!Next]_(Request!vars)
  BY <1>2, HandlerParts, Stuttering, Settling, Writing DEF OpenModal
<1>3. ASSUME NEW a \in Auths, SuccessHandler(a) PROVE [Request!Next]_(Request!vars)
  <2>1. msg[a] = "success" /\ UNCHANGED <<mode, connected, flow>>
    BY <1>3 DEF SuccessHandler, Handle
  <2>2. Ready(a)
    BY <2>1 DEF FlowInv, ToldLast
  <2> QED
    BY <1>3, <2>1, <2>2, Settling, Stuttering DEF SuccessHandler, Handle
<1>4. ASSUME NEW a \in Auths, ErrorHandler(a) PROVE [Request!Next]_(Request!vars)
  BY <1>4, HandlerParts, Stuttering, Settling, Writing DEF ErrorHandler, Handle
<1>5. ASSUME NEW a \in Auths, Poll(a) PROVE [Request!Next]_(Request!vars)
  BY <1>5, HandlerParts, Stuttering, Settling, Writing DEF Poll
<1>6. ASSUME NEW a \in Auths, Auth(a) PROVE [Request!Next]_(Request!vars)
  <2>1. Request!Ask(a)
    BY <1>6 DEF Auth, IsNext, Request!Ask, Request!Settle
  <2> QED
    BY <2>1 DEF Request!Next
<1>7. ASSUME NEW a \in Auths, ApiAuth(a) PROVE [Request!Next]_(Request!vars)
  <2>1. Request!Ask(a)
    BY <1>7 DEF ApiAuth, IsNext, Request!Ask, Request!Settle
  <2> QED
    BY <2>1 DEF Request!Next
<1>8. ASSUME NEW a \in Auths, Closes(a) PROVE [Request!Next]_(Request!vars)
  BY <1>8, HandlerParts, Stuttering, Settling, Writing DEF Closes, Open
<1>9. ASSUME NEW a \in Auths, CallsBack(a) PROVE [Request!Next]_(Request!vars)
  BY <1>9, HandlerParts, Stuttering, Settling, Writing DEF CallsBack, Callback
<1>10. ASSUME NEW a \in Auths, Reloads(a) PROVE [Request!Next]_(Request!vars)
  BY <1>10, HandlerParts, Stuttering, Settling, Writing DEF Reloads, Callback, Fault
<1>11. ASSUME NEW a \in Auths, AddClient(a) PROVE [Request!Next]_(Request!vars)
  BY <1>11, HandlerParts, Stuttering, Settling, Writing DEF AddClient
<1>12. ASSUME NEW a \in Auths, Written(a) PROVE [Request!Next]_(Request!vars)
  <2>1. a \in writing /\ a \in begun /\ promise[a] # "none"
    BY <1>12 DEF Written, FlowInv, Called, RowFirst
  <2>2. PICK w \in {{}, {a}} : connected' = connected \union w
    BY <1>12 DEF Written
  <2> QED
    BY <1>12, <2>1, <2>2, Writing DEF Written
<1>13. ASSUME NEW h \in Handlers, OauthRequest(h) PROVE [Request!Next]_(Request!vars)
  BY <1>13, HandlerParts, Stuttering, Settling, Writing DEF OauthRequest
<1>14. ASSUME NEW h \in Handlers, Oauth2Request(h) \/ AppRequest(h)
       PROVE [Request!Next]_(Request!vars)
  BY <1>14, HandlerParts, Stuttering, Settling, Writing DEF Oauth2Request, AppRequest, Redirect
<1>15. ASSUME NEW h \in Handlers, Oauth1Request(h) PROVE [Request!Next]_(Request!vars)
  BY <1>15, HandlerParts, Stuttering, Settling, Writing DEF Oauth1Request, Redirect, Hang
<1>16. ASSUME NEW h \in Handlers, OauthCallback(h) PROVE [Request!Next]_(Request!vars)
  BY <1>16, HandlerParts, Stuttering, Settling, Writing DEF OauthCallback, Hang
<1>17. ASSUME NEW h \in Handlers, Connect(h) PROVE [Request!Next]_(Request!vars)
  BY <1>17, HandlerParts, Stuttering, Settling, Writing DEF Connect, Refuse, Hang
<1>18. ASSUME NEW h \in Handlers, DeleteSession(h) PROVE [Request!Next]_(Request!vars)
  BY <1>18, HandlerParts, Stuttering, Settling, Writing DEF DeleteSession, Hang
<1>19. ASSUME NEW h \in Handlers, Oauth2Callback(h) PROVE [Request!Next]_(Request!vars)
  BY <1>19, HandlerParts, Stuttering, Settling, Writing DEF Oauth2Callback, Hang
<1>20. ASSUME NEW h \in Handlers, Oauth1Callback(h) PROVE [Request!Next]_(Request!vars)
  <2>1. h[1] \in Auths /\ promise[h[1]] # "none" /\ mode = "OAuth1"
    BY <1>20, HandlerParts DEF Oauth1Callback, At, FlowInv, Called
  <2>2. CASE UNCHANGED begun
    BY <1>20, <2>2, Stuttering DEF Oauth1Callback, Hang
  <2>3. CASE begun' = begun \union {h[1]}
    <3>1. Request!Begin(h[1]) \/ RequestUnchanged
      BY <1>20, <2>1, <2>3 DEF Oauth1Callback, Hang, Request!Begin
    <3> QED
      BY <2>1, <3>1, Stuttering DEF Request!Next
  <2> QED
    BY <1>20, <2>2, <2>3 DEF Oauth1Callback
<1>21. ASSUME NEW h \in Handlers, AppCallback(h) PROVE [Request!Next]_(Request!vars)
  BY <1>21, HandlerParts, Stuttering, Settling, Writing DEF AppCallback, Refuse
<1>22. ASSUME NEW h \in Handlers, ApiKey(h) \/ Basic(h) \/ Create(h)
       PROVE [Request!Next]_(Request!vars)
  BY <1>22, HandlerParts, Stuttering, Settling, Writing DEF ApiKey, Basic, Create, Checks
<1>23. ASSUME NEW h \in Handlers, Upsert(h) PROVE [Request!Next]_(Request!vars)
  <2>1. h[1] \in Auths /\ promise[h[1]] # "none"
    BY <1>23, HandlerParts DEF Upsert, At, FlowInv, Called
  <2>2. CASE Fails(h) /\ UNCHANGED connected
    BY <1>23, <2>1, <2>2, Settling, Stuttering DEF Upsert
  <2>3. CASE Proceed(h, "upsert", "initiate") /\ connected' = connected \union {h[1]}
    <3>1. {h[1]} \in SUBSET Auths /\ \A a \in {h[1]} : promise[a] # "none"
      BY <2>1
    <3>2. connected' = connected \union {h[1]} /\ UNCHANGED <<mode, promise, flow>>
      BY <1>23, <2>3 DEF Upsert
    <3>3. mode # "OAuth1"
      BY <1>23 DEF Upsert, At, FlowInv, RowFirst
    <3> QED
      BY <3>1, <3>2, <3>3, Writing
  <2> QED
    BY <1>23, <2>2, <2>3 DEF Upsert
<1>24. ASSUME NEW h \in Handlers, Initiate(h) PROVE [Request!Next]_(Request!vars)
  <2>1. h[1] \in connected /\ h[1] \in Auths
    BY <1>24, HandlerParts DEF Initiate, At, FlowInv, RowFirst
  <2>2. CASE Fails(h) /\ UNCHANGED <<started, swallowed>>
    BY <1>24, <2>1, <2>2, Settling, Stuttering DEF Initiate
  <2>3. CASE /\ Proceed(h, "initiate", "answer")
              /\ \/ started' = started \union {h[1]} /\ UNCHANGED swallowed
                 \/ swallowed' = swallowed \union {h[1]} /\ UNCHANGED started
    <3>1. CASE started' = started \union {h[1]} /\ UNCHANGED swallowed
      BY <1>24, <2>1, <2>3, <3>1 DEF Initiate, Request!Start, Request!Next
    <3>2. CASE swallowed' = swallowed \union {h[1]} /\ UNCHANGED started
      BY <1>24, <2>1, <2>3, <3>2 DEF Initiate, Request!Start, Request!Next
    <3> QED
      BY <2>3, <3>1, <3>2
  <2> QED
    BY <1>24, <2>2, <2>3 DEF Initiate
<1>25. ASSUME NEW h \in Handlers, Answer(h) PROVE [Request!Next]_(Request!vars)
  <2>1. h[1] \in Auths /\ Ready(h[1])
    BY <1>25, HandlerParts DEF Answer, At, FlowInv, ToldLast
  <2> QED
    BY <1>25, <2>1, Settling, Stuttering DEF Answer
<1>26. CASE DeleteConfig
  BY <1>26, HandlerParts, Stuttering, Settling, Writing DEF DeleteConfig, Fault
<1>27. CASE Restart
  <2>1. PICK w \in SUBSET writing : connected' = connected \union w
    BY <1>27 DEF Restart
  <2>2. w \in SUBSET Auths /\ w \subseteq begun /\ \A a \in w : promise[a] # "none"
    BY <2>1 DEF FlowInv, Types, Called, RowFirst
  <2> QED
    BY <1>27, <2>1, <2>2, Writing DEF Restart
<1>28. CASE UNCHANGED vars
  BY <1>28, HandlerParts, Stuttering, Settling, Writing DEF vars
<1> QED
  BY <1>1, <1>2, <1>3, <1>4, <1>5, <1>6, <1>7, <1>8, <1>9, <1>10, <1>11, <1>12, <1>13, <1>14,
     <1>15, <1>16, <1>17, <1>18, <1>19, <1>20, <1>21, <1>22, <1>23, <1>24, <1>25, <1>26,
     <1>27, <1>28 DEF Next, Page, User, Server

\* index.ts resolves auth() when the server says so, and the server says so when the
\* connection is written and the start of its syncs is over (all started, or a failure
\* swallowed): a promise settles once, and is not resolved before, however handlers,
\* closed popups, reloads and restarts interleave.  In OAuth1, where the server does not
\* await the row, a promise is not resolved before the row began to be written.
THEOREM FlowsImplementRequest == Spec => ImplementsAuthRequest
<1>1. Init => Request!Init
  BY InitRefines
<1>2. FlowInv /\ [Next]_vars => [Request!Next]_(Request!vars)
  BY NextRefines
<1> QED
  BY <1>1, <1>2, FlowInvariant, PTL DEF Spec, ImplementsAuthRequest, Request!Spec

(***************************************************************************)
(* RejectedHasReason.  A call that nothing has befallen yet, one without a *)
(* reason, goes through the flow once: its session is there from the       *)
(* redirect to the first callback that takes it, and only the handler that *)
(* took it writes the row.  So when the page rejects it, either the flow   *)
(* is over and has written nothing, or the popup never opened.             *)
(***************************************************************************)

\* A callback that has taken the session.
Late == {"callback", "upsert", "initiate", "answer"}

Untouched(a) == a \notin session \union writing \union connected

\* The flow of the call is over, and no row has been written or will be.
Over(a) ==
    /\ task[<<a, "connect">>] = "done"
    /\ Untouched(a) /\ \A n \in Ids : task[<<a, n>>] \notin Late

\* The popup was blocked.
Never(a) ==
    /\ window[a] = "closed"
    /\ Untouched(a) /\ \A n \in Ids : task[<<a, n>>] = "idle"

\* Whatever has befallen the call, its steps come in this order.
InOrder(a) ==
    /\ promise[a] = "none" => Untouched(a) /\ a \notin clients /\ msg[a] = "none"
    /\ window[a] \in {"none", "blank"} => task[<<a, "connect">>] = "idle"
    /\ msg[a] \in {"error", "success"} => a \notin clients /\ task[<<a, "connect">>] # "idle"
    /\ task[<<a, "connect">>] \in {"idle", "check"} =>
          /\ Untouched(a) /\ window[a] \notin {"provider", "first", "again"}
          /\ \A n \in Ids \ {"connect"} : task[<<a, n>>] = "idle"
    /\ \A n \in Ids \ {"connect"} : task[<<a, n>>] # "check"
    /\ a \in session => a \notin connected \union writing

\* Only callbacks write rows, flow, and none for a session that is still there.
SessionTaken(a) ==
    /\ task[<<a, "connect">>] \in {"idle", "check", "done"}
    /\ \A n \in Ids : task[<<a, n>>] \in Late => a \notin session

\* As long as nothing has befallen it, a call has one callback at the most, and the
\* server has its socket until it has told how it ended.
Alone(a) ==
    /\ \A m, n \in Ids : task[<<a, m>>] \in Late /\ task[<<a, n>>] \in Late => m = n
    /\ \A n \in Ids : task[<<a, n>>] \in {"callback", "upsert"} => Untouched(a)
    /\ \/ msg[a] = "ack" \/ task[<<a, "connect">>] = "check" \/ a \in session
       \/ \E n \in Ids : task[<<a, n>>] \in Late
       => a \in clients
    /\ msg[a] = "error" => Over(a)
    /\ promise[a] = "pending" /\ window[a] \in {"answered", "closed"} =>
          Over(a) \/ Never(a) \/ msg[a] = "success"
    /\ promise[a] = "rejected" => Over(a) \/ Never(a)

CallInv(a) == InOrder(a) /\ SessionTaken(a) /\ (reason[a] = "none" => Alone(a))

PopupInv == mode \in PopupModes => \A a \in Auths : CallInv(a)

\* One fetch and its handler, for the other providers.
FetchAlone(a) ==
    /\ window[a] = "connect" => task[<<a, "connect">>] # "done"
    /\ promise[a] = "rejected" => a \notin connected /\ task[<<a, "connect">>] = "done"

FetchCall(a) ==
    /\ msg[a] = "none" /\ window[a] \in {"none", "connect", "closed"}
    /\ \A n \in Ids \ {"connect"} : task[<<a, n>>] = "idle"
    /\ task[<<a, "connect">>] \notin {"find", "delete", "callback"}
    /\ task[<<a, "connect">>] \in {"idle", "check", "upsert"} => a \notin connected
    /\ reason[a] = "none" => FetchAlone(a)

FetchInv ==
    mode \notin PopupModes => timers = {} /\ writing = {} /\ \A a \in Auths : FetchCall(a)

LEMMA HandlerIs ==
  \A h \in Handlers : \E a \in Auths, n \in Ids : h = <<a, n>> /\ h[1] = a /\ h[2] = n
BY DEF Handlers, Ids

LEMMA OtherHandler ==
  \A a, b \in Auths, m, n \in Ids :
     <<a, m>> \in Handlers /\ (a # b \/ m # n => <<b, n>> # <<a, m>>)
BY DEF Handlers, Ids

LEMMA OtherTasks ==
  ASSUME Types, NEW a \in Auths, NEW n \in Ids,
         task' = [task EXCEPT ![<<a, n>>] = task'[<<a, n>>]]
  PROVE  /\ \A b \in Auths \ {a}, m \in Ids : task'[<<b, m>>] = task[<<b, m>>]
         /\ \A m \in Ids \ {n} : task'[<<a, m>>] = task[<<a, m>>]
BY OtherHandler DEF Types

\* What a step leaves alone when it is about another call.
Same(a) ==
    /\ promise'[a] = promise[a] /\ window'[a] = window[a] /\ msg'[a] = msg[a]
    /\ reason'[a] = reason[a]
    /\ a \in clients' <=> a \in clients
    /\ a \in session' <=> a \in session
    /\ a \in writing' <=> a \in writing
    /\ a \in connected' <=> a \in connected
    /\ \A n \in Ids : task'[<<a, n>>] = task[<<a, n>>]

LEMMA SameKept ==
  ASSUME NEW a \in Auths, Same(a), CallInv(a)
  PROVE  CallInv(a)'
<1> USE DEF Same
<1>1. Untouched(a)' <=> Untouched(a)
  BY DEF Untouched
<1>2. Over(a)' <=> Over(a)
  BY <1>1 DEF Over, Ids
<1>3. Never(a)' <=> Never(a)
  BY <1>1 DEF Never, Ids
<1>4. InOrder(a)'
  BY <1>1 DEF CallInv, InOrder, Ids
<1>5. SessionTaken(a)'
  BY DEF CallInv, SessionTaken, Ids
<1>6. reason[a] = "none" => Alone(a)'
  BY <1>1, <1>2, <1>3 DEF CallInv, Alone, Ids
<1> QED
  BY <1>4, <1>5, <1>6 DEF CallInv

LEMMA ByOne ==
  ASSUME PopupInv, mode \in PopupModes, NEW a \in Auths, \A b \in Auths \ {a} : Same(b),
         CallInv(a)'
  PROVE  PopupInv'
BY SameKept DEF PopupInv

LEMMA SameFetch ==
  ASSUME NEW a \in Auths, Same(a), FetchCall(a)
  PROVE  FetchCall(a)'
BY DEF Same, FetchCall, FetchAlone, Ids

LEMMA ByOneFetch ==
  ASSUME FetchInv, mode \notin PopupModes, NEW a \in Auths, \A b \in Auths \ {a} : Same(b),
         timers' = timers, writing' = writing, FetchCall(a)'
  PROVE  FetchInv'
BY SameFetch DEF FetchInv

LEMMA OnlyConnect ==
  ASSUME FetchInv, mode \notin PopupModes, NEW h \in Handlers, task[h] # "idle"
  PROVE  /\ \E a \in Auths : h = <<a, "connect">> /\ h[1] = a /\ h[2] = "connect"
         /\ task[h] \notin {"find", "delete", "callback"}
<1>1. PICK a \in Auths, n \in Ids : h = <<a, n>> /\ h[1] = a /\ h[2] = n
  BY HandlerIs
<1>2. n = "connect" /\ task[h] \notin {"find", "delete", "callback"}
  BY <1>1 DEF FetchInv, FetchCall, Ids
<1> QED
  BY <1>1, <1>2

LEMMA NextPopupInv == FlowInv /\ PopupInv /\ mode \in PopupModes /\ [Next]_vars => PopupInv'
<1> SUFFICES ASSUME FlowInv, PopupInv, mode \in PopupModes, [Next]_vars PROVE PopupInv'
  OBVIOUS
<1> USE DEF page, server, rows, flow, At, Goto, Proceed, Fails, Respond, NotifyErr, NotifySuccess,
           Notify, Shown, Settled, Because
<1> USE DEF FlowInv, Types, Called, Ids, PopupModes
<1> \A a \in Auths : CallInv(a)
  BY DEF PopupInv
<1>1. ASSUME NEW a \in Auths, FetchFails(a) PROVE PopupInv'
  <2>1. \A b \in Auths \ {a} : Same(b)
    BY <1>1 DEF FetchFails, Same
  <2>2. CallInv(a)'
    BY <1>1, HandlerOf DEF FetchFails, CallInv, InOrder, SessionTaken, Alone, Over, Never,
       Untouched, Late
  <2> QED
    BY <2>1, <2>2, ByOne
<1>2. ASSUME NEW a \in Auths, OpenModal(a) PROVE PopupInv'
  <2>3. task' = [task EXCEPT ![<<a, "connect">>] = task'[<<a, "connect">>]]
    BY <1>2 DEF OpenModal
  <2>4. \A b \in Auths \ {a}, m \in Ids : task'[<<b, m>>] = task[<<b, m>>]
    BY <2>3, OtherTasks
  <2>1. \A b \in Auths \ {a} : Same(b)
    BY <1>2, <2>4 DEF OpenModal, Same
  <2>2. CallInv(a)'
    BY <1>2, HandlerOf DEF OpenModal, CallInv, InOrder, SessionTaken, Alone, Over, Never,
       Untouched, Late
  <2> QED
    BY <2>1, <2>2, ByOne
<1>3. ASSUME NEW a \in Auths, SuccessHandler(a) PROVE PopupInv'
  <2>1. \A b \in Auths \ {a} : Same(b)
    BY <1>3 DEF SuccessHandler, Handle, Same
  <2>2. CallInv(a)'
    BY <1>3, HandlerOf DEF SuccessHandler, Handle, CallInv, InOrder, SessionTaken, Alone,
       Over, Never, Untouched, Late
  <2> QED
    BY <2>1, <2>2, ByOne
<1>4. ASSUME NEW a \in Auths, ErrorHandler(a) PROVE PopupInv'
  <2>1. \A b \in Auths \ {a} : Same(b)
    BY <1>4 DEF ErrorHandler, Handle, Same
  <2>2. CallInv(a)'
    BY <1>4, HandlerOf DEF ErrorHandler, Handle, CallInv, InOrder, SessionTaken, Alone, Over,
       Never, Untouched, Late
  <2> QED
    BY <2>1, <2>2, ByOne
<1>5. ASSUME NEW a \in Auths, Poll(a) PROVE PopupInv'
  <2>1. \A b \in Auths \ {a} : Same(b)
    BY <1>5 DEF Poll, Same
  <2>2. CallInv(a)'
    BY <1>5, HandlerOf DEF Poll, CallInv, InOrder, SessionTaken, Alone, Over, Never,
       Untouched, Late
  <2> QED
    BY <2>1, <2>2, ByOne
<1>6. ASSUME NEW a \in Auths, Auth(a) PROVE PopupInv'
  <2>1. \A b \in Auths \ {a} : Same(b)
    BY <1>6 DEF Auth, IsNext, Same
  <2>2. CallInv(a)'
    BY <1>6, HandlerOf DEF Auth, IsNext, CallInv, InOrder, SessionTaken, Alone, Over, Never,
       Untouched, Late
  <2> QED
    BY <2>1, <2>2, ByOne
<1>7. ASSUME NEW a \in Auths, ApiAuth(a) PROVE PopupInv'
  <2>3. task' = [task EXCEPT ![<<a, "connect">>] = task'[<<a, "connect">>]]
    BY <1>7 DEF ApiAuth, IsNext
  <2>4. \A b \in Auths \ {a}, m \in Ids : task'[<<b, m>>] = task[<<b, m>>]
    BY <2>3, OtherTasks
  <2>1. \A b \in Auths \ {a} : Same(b)
    BY <1>7, <2>4 DEF ApiAuth, IsNext, Same
  <2>2. CallInv(a)'
    BY <1>7, HandlerOf DEF ApiAuth, IsNext, CallInv, InOrder, SessionTaken, Alone, Over,
       Never, Untouched, Late
  <2> QED
    BY <2>1, <2>2, ByOne
<1>8. ASSUME NEW a \in Auths, Closes(a) PROVE PopupInv'
  <2>1. \A b \in Auths \ {a} : Same(b)
    BY <1>8 DEF Closes, Open, Same
  <2>2. CallInv(a)'
    BY <1>8, HandlerOf DEF Closes, Open, CallInv, InOrder, SessionTaken, Alone, Over, Never,
       Untouched, Late
  <2> QED
    BY <2>1, <2>2, ByOne
<1>9. ASSUME NEW a \in Auths, CallsBack(a) PROVE PopupInv'
  <2>3. task' = [task EXCEPT ![<<a, "first">>] = task'[<<a, "first">>]]
    BY <1>9 DEF CallsBack, Callback
  <2>4. \A b \in Auths \ {a}, m \in Ids : task'[<<b, m>>] = task[<<b, m>>]
    BY <2>3, OtherTasks
  <2>1. \A b \in Auths \ {a} : Same(b)
    BY <1>9, <2>4 DEF CallsBack, Callback, Same
  <2>2. CallInv(a)'
    BY <1>9, HandlerOf DEF CallsBack, Callback, CallInv, InOrder, SessionTaken, Alone, Over,
       Never, Untouched, Late
  <2> QED
    BY <2>1, <2>2, ByOne
<1>10. ASSUME NEW a \in Auths, Reloads(a) PROVE PopupInv'
  <2>3. task' = [task EXCEPT ![<<a, "again">>] = task'[<<a, "again">>]]
    BY <1>10 DEF Reloads, Callback, Fault
  <2>4. \A b \in Auths \ {a}, m \in Ids : task'[<<b, m>>] = task[<<b, m>>]
    BY <2>3, OtherTasks
  <2>1. \A b \in Auths \ {a} : Same(b)
    BY <1>10, <2>4 DEF Reloads, Callback, Fault, Same
  <2>2. CallInv(a)'
    BY <1>10, HandlerOf DEF Reloads, Callback, Fault, CallInv, InOrder, SessionTaken, Alone,
       Over, Never, Untouched, Late
  <2> QED
    BY <2>1, <2>2, ByOne
<1>11. ASSUME NEW a \in Auths, AddClient(a) PROVE PopupInv'
  <2>1. \A b \in Auths \ {a} : Same(b)
    BY <1>11 DEF AddClient, Same
  <2>2. CallInv(a)'
    BY <1>11, HandlerOf DEF AddClient, CallInv, InOrder, SessionTaken, Alone, Over, Never,
       Untouched, Late
  <2> QED
    BY <2>1, <2>2, ByOne
<1>12. ASSUME NEW a \in Auths, Written(a) PROVE PopupInv'
  <2>1. \A b \in Auths \ {a} : Same(b)
    BY <1>12 DEF Written, Same
  <2>2. CallInv(a)'
    BY <1>12, HandlerOf DEF Written, CallInv, InOrder, SessionTaken, Alone, Over, Never,
       Untouched, Late
  <2> QED
    BY <2>1, <2>2, ByOne
<1>13. ASSUME NEW h \in Handlers, OauthRequest(h) PROVE PopupInv'
  <2> PICK a \in Auths, n \in Ids : h = <<a, n>> /\ h[1] = a /\ h[2] = n
    BY HandlerIs
  <2>3. task' = [task EXCEPT ![h] = task'[h]]
    BY <1>13 DEF OauthRequest
  <2>4. \A b \in Auths \ {a}, m \in Ids : task'[<<b, m>>] = task[<<b, m>>]
    BY <2>3, OtherTasks
  <2>1. \A b \in Auths \ {a} : Same(b)
    BY <1>13, <2>4 DEF OauthRequest, Same
  <2>2. CallInv(a)'
    BY <1>13, HandlerOf DEF OauthRequest, CallInv, InOrder, SessionTaken, Alone, Over, Never,
       Untouched, Late
  <2> QED
    BY <2>1, <2>2, ByOne
<1>14. ASSUME NEW h \in Handlers, Oauth2Request(h) \/ AppRequest(h) PROVE PopupInv'
  <2> PICK a \in Auths, n \in Ids : h = <<a, n>> /\ h[1] = a /\ h[2] = n
    BY HandlerIs
  <2>3. task' = [task EXCEPT ![h] = task'[h]]
    BY <1>14 DEF Oauth2Request, AppRequest, Redirect
  <2>4. \A b \in Auths \ {a}, m \in Ids : task'[<<b, m>>] = task[<<b, m>>]
    BY <2>3, OtherTasks
  <2>1. \A b \in Auths \ {a} : Same(b)
    BY <1>14, <2>4 DEF Oauth2Request, AppRequest, Redirect, Same
  <2>2. CallInv(a)'
    BY SMTT(60), <1>14, HandlerOf DEF Oauth2Request, AppRequest, Redirect, CallInv, InOrder,
       SessionTaken, Alone, Over, Never, Untouched, Late
  <2> QED
    BY <2>1, <2>2, ByOne
<1>15. ASSUME NEW h \in Handlers, Oauth1Request(h) PROVE PopupInv'
  <2> PICK a \in Auths, n \in Ids : h = <<a, n>> /\ h[1] = a /\ h[2] = n
    BY HandlerIs
  <2>3. task' = [task EXCEPT ![h] = task'[h]]
    BY <1>15 DEF Oauth1Request, Redirect, Hang
  <2>4. \A b \in Auths \ {a}, m \in Ids : task'[<<b, m>>] = task[<<b, m>>]
    BY <2>3, OtherTasks
  <2>1. \A b \in Auths \ {a} : Same(b)
    BY <1>15, <2>4 DEF Oauth1Request, Redirect, Hang, Same
  <2>2. CallInv(a)'
    BY <1>15, HandlerOf DEF Oauth1Request, Redirect, Hang, CallInv, InOrder, SessionTaken,
       Alone, Over, Never, Untouched, Late
  <2> QED
    BY <2>1, <2>2, ByOne
<1>16. ASSUME NEW h \in Handlers, OauthCallback(h) PROVE PopupInv'
  <2> PICK a \in Auths, n \in Ids : h = <<a, n>> /\ h[1] = a /\ h[2] = n
    BY HandlerIs
  <2>3. task' = [task EXCEPT ![h] = task'[h]]
    BY <1>16 DEF OauthCallback, Hang
  <2>4. \A b \in Auths \ {a}, m \in Ids : task'[<<b, m>>] = task[<<b, m>>]
    BY <2>3, OtherTasks
  <2>1. \A b \in Auths \ {a} : Same(b)
    BY <1>16, <2>4 DEF OauthCallback, Hang, Same
  <2>2. CallInv(a)'
    BY SMTT(60), <1>16, HandlerOf DEF OauthCallback, Hang, CallInv, InOrder, SessionTaken,
       Alone, Over,
       Never, Untouched, Late
  <2> QED
    BY <2>1, <2>2, ByOne
<1>17. ASSUME NEW h \in Handlers, Connect(h) PROVE PopupInv'
  <2> PICK a \in Auths, n \in Ids : h = <<a, n>> /\ h[1] = a /\ h[2] = n
    BY HandlerIs
  <2>3. task' = [task EXCEPT ![h] = task'[h]]
    BY <1>17 DEF Connect, Refuse, Hang
  <2>4. \A b \in Auths \ {a}, m \in Ids : task'[<<b, m>>] = task[<<b, m>>]
    BY <2>3, OtherTasks
  <2>1. \A b \in Auths \ {a} : Same(b)
    BY <1>17, <2>4 DEF Connect, Refuse, Hang, Same
  <2>2. CallInv(a)'
    BY SMTT(60), <1>17, HandlerOf DEF Connect, Refuse, Hang, CallInv, InOrder, SessionTaken,
       Alone,
       Over, Never, Untouched, Late
  <2> QED
    BY <2>1, <2>2, ByOne
<1>18. ASSUME NEW h \in Handlers, DeleteSession(h) PROVE PopupInv'
  <2> PICK a \in Auths, n \in Ids : h = <<a, n>> /\ h[1] = a /\ h[2] = n
    BY HandlerIs
  <2>3. task' = [task EXCEPT ![h] = task'[h]]
    BY <1>18 DEF DeleteSession, Hang
  <2>4. \A b \in Auths \ {a}, m \in Ids : task'[<<b, m>>] = task[<<b, m>>]
    BY <2>3, OtherTasks
  <2>1. \A b \in Auths \ {a} : Same(b)
    BY <1>18, <2>4 DEF DeleteSession, Hang, Same
  <2>2. CallInv(a)'
    BY SMTT(60), <1>18, HandlerOf DEF DeleteSession, Hang, CallInv, InOrder, SessionTaken,
       Alone, Over,
       Never, Untouched, Late
  <2> QED
    BY <2>1, <2>2, ByOne
<1>19. ASSUME NEW h \in Handlers, Oauth2Callback(h) PROVE PopupInv'
  <2> PICK a \in Auths, n \in Ids : h = <<a, n>> /\ h[1] = a /\ h[2] = n
    BY HandlerIs
  <2>3. task' = [task EXCEPT ![h] = task'[h]]
    BY <1>19 DEF Oauth2Callback, Hang
  <2>4. \A b \in Auths \ {a}, m \in Ids : task'[<<b, m>>] = task[<<b, m>>]
    BY <2>3, OtherTasks
  <2>1. \A b \in Auths \ {a} : Same(b)
    BY ZenonT(60), <1>19, <2>4 DEF Oauth2Callback, Hang, Same
  <2>2. CallInv(a)'
    BY SMTT(60), <1>19, HandlerOf DEF Oauth2Callback, Hang, CallInv, InOrder, SessionTaken,
       Alone,
       Over, Never, Untouched, Late
  <2> QED
    BY <2>1, <2>2, ByOne
<1>20. ASSUME NEW h \in Handlers, Oauth1Callback(h) PROVE PopupInv'
  <2> PICK a \in Auths, n \in Ids : h = <<a, n>> /\ h[1] = a /\ h[2] = n
    BY HandlerIs
  <2>3. task' = [task EXCEPT ![h] = task'[h]]
    BY <1>20 DEF Oauth1Callback, Hang
  <2>4. \A b \in Auths \ {a}, m \in Ids : task'[<<b, m>>] = task[<<b, m>>]
    BY <2>3, OtherTasks
  <2>1. \A b \in Auths \ {a} : Same(b)
    BY ZenonT(60), <1>20, <2>4 DEF Oauth1Callback, Hang, Same
  <2>2. CallInv(a)'
    BY SMTT(60), <1>20, HandlerOf DEF Oauth1Callback, Hang, CallInv, InOrder, SessionTaken,
       Alone,
       Over, Never, Untouched, Late
  <2> QED
    BY <2>1, <2>2, ByOne
<1>21. ASSUME NEW h \in Handlers, AppCallback(h) PROVE PopupInv'
  <2> PICK a \in Auths, n \in Ids : h = <<a, n>> /\ h[1] = a /\ h[2] = n
    BY HandlerIs
  <2>3. task' = [task EXCEPT ![h] = task'[h]]
    BY <1>21 DEF AppCallback, Refuse
  <2>4. \A b \in Auths \ {a}, m \in Ids : task'[<<b, m>>] = task[<<b, m>>]
    BY <2>3, OtherTasks
  <2>1. \A b \in Auths \ {a} : Same(b)
    BY ZenonT(60), <1>21, <2>4 DEF AppCallback, Refuse, Same
  <2>2. CallInv(a)'
    BY SMTT(60), <1>21, HandlerOf DEF AppCallback, Refuse, CallInv, InOrder, SessionTaken,
       Alone, Over,
       Never, Untouched, Late
  <2> QED
    BY <2>1, <2>2, ByOne
<1>22. ASSUME NEW h \in Handlers, ApiKey(h) \/ Basic(h) \/ Create(h) PROVE PopupInv'
  <2> PICK a \in Auths, n \in Ids : h = <<a, n>> /\ h[1] = a /\ h[2] = n
    BY HandlerIs
  <2>3. task' = [task EXCEPT ![h] = task'[h]]
    BY <1>22 DEF ApiKey, Basic, Create, Checks
  <2>4. \A b \in Auths \ {a}, m \in Ids : task'[<<b, m>>] = task[<<b, m>>]
    BY <2>3, OtherTasks
  <2>1. \A b \in Auths \ {a} : Same(b)
    BY <1>22, <2>4 DEF ApiKey, Basic, Create, Checks, Same
  <2>2. CallInv(a)'
    BY <1>22, HandlerOf DEF ApiKey, Basic, Create, Checks, CallInv, InOrder, SessionTaken,
       Alone, Over, Never, Untouched, Late
  <2> QED
    BY <2>1, <2>2, ByOne
<1>23. ASSUME NEW h \in Handlers, Upsert(h) PROVE PopupInv'
  <2> PICK a \in Auths, n \in Ids : h = <<a, n>> /\ h[1] = a /\ h[2] = n
    BY HandlerIs
  <2>3. task' = [task EXCEPT ![h] = task'[h]]
    BY <1>23 DEF Upsert
  <2>4. \A b \in Auths \ {a}, m \in Ids : task'[<<b, m>>] = task[<<b, m>>]
    BY <2>3, OtherTasks
  <2>1. \A b \in Auths \ {a} : Same(b)
    BY ZenonT(60), <1>23, <2>4 DEF Upsert, Same
  <2>2. CallInv(a)'
    BY SMTT(60), <1>23, HandlerOf DEF Upsert, CallInv, InOrder, SessionTaken, Alone, Over,
       Never,
       Untouched, Late
  <2> QED
    BY <2>1, <2>2, ByOne
<1>24. ASSUME NEW h \in Handlers, Initiate(h) PROVE PopupInv'
  <2> PICK a \in Auths, n \in Ids : h = <<a, n>> /\ h[1] = a /\ h[2] = n
    BY HandlerIs
  <2>3. task' = [task EXCEPT ![h] = task'[h]]
    BY <1>24 DEF Initiate
  <2>4. \A b \in Auths \ {a}, m \in Ids : task'[<<b, m>>] = task[<<b, m>>]
    BY <2>3, OtherTasks
  <2>1. \A b \in Auths \ {a} : Same(b)
    <3>1. CASE Fails(h) /\ Because(h[1], "unfinished")
      BY <1>24, <2>4, <3>1 DEF Initiate, Same
    <3>2. CASE Proceed(h, "initiate", "answer") /\ UNCHANGED reason
      BY <1>24, <2>4, <3>2 DEF Initiate, Same
    <3> QED
      BY <1>24, <3>1, <3>2 DEF Initiate
  <2>2. CallInv(a)'
    BY SMTT(60), <1>24, HandlerOf DEF Initiate, CallInv, InOrder, SessionTaken, Alone, Over,
       Never,
       Untouched, Late
  <2> QED
    BY <2>1, <2>2, ByOne
<1>25. ASSUME NEW h \in Handlers, Answer(h) PROVE PopupInv'
  <2> PICK a \in Auths, n \in Ids : h = <<a, n>> /\ h[1] = a /\ h[2] = n
    BY HandlerIs
  <2>3. task' = [task EXCEPT ![h] = task'[h]]
    BY <1>25 DEF Answer
  <2>4. \A b \in Auths \ {a}, m \in Ids : task'[<<b, m>>] = task[<<b, m>>]
    BY <2>3, OtherTasks
  <2>1. \A b \in Auths \ {a} : Same(b)
    <3>1. CASE NotifyErr(h) /\ Because(h[1], "unfinished")
      BY <1>25, <2>4, <3>1 DEF Answer, Same
    <3>2. CASE NotifySuccess(h) /\ UNCHANGED reason
      BY <1>25, <2>4, <3>2 DEF Answer, Same
    <3> QED
      BY <1>25, <3>1, <3>2 DEF Answer
  <2>2. CallInv(a)'
    BY SMTT(60), <1>25, HandlerOf DEF Answer, CallInv, InOrder, SessionTaken, Alone, Over,
       Never,
       Untouched, Late
  <2> QED
    BY <2>1, <2>2, ByOne
<1>26. CASE DeleteConfig
  BY <1>26, SameKept DEF DeleteConfig, Same, PopupInv
<1>27. CASE Restart
  <2> SUFFICES ASSUME NEW a \in Auths PROVE CallInv(a)'
    BY <1>27 DEF Restart, PopupInv
  <2> QED
    BY <1>27, HandlerOf DEF Restart, Running, CallInv, InOrder, SessionTaken, Alone, Over,
       Never,
       Untouched, Late
<1>28. CASE UNCHANGED vars
  BY <1>28, SameKept DEF vars, Same, PopupInv
<1> QED
  BY <1>1, <1>2, <1>3, <1>4, <1>5, <1>6, <1>7, <1>8, <1>9, <1>10, <1>11, <1>12, <1>13, <1>14,
     <1>15, <1>16, <1>17, <1>18, <1>19, <1>20, <1>21, <1>22, <1>23, <1>24, <1>25, <1>26,
     <1>27, <1>28 DEF Next, Page, User, Server

LEMMA NextFetchInv == FlowInv /\ FetchInv /\ mode \notin PopupModes /\ [Next]_vars => FetchInv'
<1> SUFFICES ASSUME FlowInv, FetchInv, mode \notin PopupModes, [Next]_vars PROVE FetchInv'
  OBVIOUS
<1> USE DEF page, server, rows, flow, At, Goto, Proceed, Fails, Respond, NotifyErr, NotifySuccess,
           Notify, Shown, Settled, Because
<1> USE DEF FlowInv, Types, Called, Ids, PopupModes
<1> timers = {} /\ writing = {} /\ \A a \in Auths : FetchCall(a)
  BY DEF FetchInv
<1>1. ASSUME NEW a \in Auths, FetchFails(a) PROVE FetchInv'
  BY <1>1 DEF FetchFails, FetchInv, FetchCall, FetchAlone
<1>2. ASSUME NEW a \in Auths, OpenModal(a) PROVE FetchInv'
  BY <1>2 DEF OpenModal, FetchInv, FetchCall, FetchAlone
<1>3. ASSUME NEW a \in Auths, SuccessHandler(a) PROVE FetchInv'
  BY <1>3 DEF SuccessHandler, Handle, FetchInv, FetchCall, FetchAlone
<1>4. ASSUME NEW a \in Auths, ErrorHandler(a) PROVE FetchInv'
  BY <1>4 DEF ErrorHandler, Handle, FetchInv, FetchCall, FetchAlone
<1>5. ASSUME NEW a \in Auths, Poll(a) PROVE FetchInv'
  BY <1>5 DEF Poll, FetchInv, FetchCall, FetchAlone
<1>6. ASSUME NEW a \in Auths, Auth(a) PROVE FetchInv'
  BY <1>6 DEF Auth, IsNext, FetchInv, FetchCall, FetchAlone
<1>7. ASSUME NEW a \in Auths, ApiAuth(a) PROVE FetchInv'
  <2>3. task' = [task EXCEPT ![<<a, "connect">>] = task'[<<a, "connect">>]]
    BY <1>7 DEF ApiAuth, IsNext
  <2>4. \A b \in Auths \ {a}, m \in Ids : task'[<<b, m>>] = task[<<b, m>>]
    BY <2>3, OtherTasks
  <2>1. \A b \in Auths \ {a} : Same(b)
    BY <1>7, <2>4 DEF ApiAuth, IsNext, Same
  <2>5. \A m \in Ids \ {"connect"} : task'[<<a, m>>] = task[<<a, m>>]
    BY <2>3, OtherTasks
  <2>6. <<a, "connect">> \in Handlers
    BY HandlerOf
  <2>2. FetchCall(a)' /\ timers' = timers /\ writing' = writing
    BY <1>7, <2>5, <2>6 DEF ApiAuth, IsNext, FetchCall, FetchAlone
  <2> QED
    BY <2>1, <2>2, ByOneFetch
<1>8. ASSUME NEW a \in Auths, Closes(a) PROVE FetchInv'
  BY <1>8 DEF Closes, Open, FetchInv, FetchCall, FetchAlone
<1>9. ASSUME NEW a \in Auths, CallsBack(a) PROVE FetchInv'
  BY <1>9 DEF CallsBack, Callback, FetchInv, FetchCall, FetchAlone
<1>10. ASSUME NEW a \in Auths, Reloads(a) PROVE FetchInv'
  BY <1>10 DEF Reloads, Callback, Fault, FetchInv, FetchCall, FetchAlone
<1>11. ASSUME NEW a \in Auths, AddClient(a) PROVE FetchInv'
  BY <1>11 DEF AddClient, FetchInv, FetchCall, FetchAlone
<1>12. ASSUME NEW a \in Auths, Written(a) PROVE FetchInv'
  BY <1>12 DEF Written, FetchInv, FetchCall, FetchAlone
<1>13. ASSUME NEW h \in Handlers, OauthRequest(h) PROVE FetchInv'
  BY <1>13, OnlyConnect DEF OauthRequest
<1>14. ASSUME NEW h \in Handlers, Oauth2Request(h) \/ AppRequest(h) PROVE FetchInv'
  BY <1>14, OnlyConnect DEF Oauth2Request, AppRequest, Redirect
<1>15. ASSUME NEW h \in Handlers, Oauth1Request(h) PROVE FetchInv'
  BY <1>15, OnlyConnect DEF Oauth1Request, Redirect, Hang
<1>16. ASSUME NEW h \in Handlers, OauthCallback(h) PROVE FetchInv'
  BY <1>16, OnlyConnect DEF OauthCallback, Hang
<1>17. ASSUME NEW h \in Handlers, Connect(h) PROVE FetchInv'
  BY <1>17, OnlyConnect DEF Connect, Refuse, Hang
<1>18. ASSUME NEW h \in Handlers, DeleteSession(h) PROVE FetchInv'
  BY <1>18, OnlyConnect DEF DeleteSession, Hang
<1>19. ASSUME NEW h \in Handlers, Oauth2Callback(h) PROVE FetchInv'
  BY <1>19, OnlyConnect DEF Oauth2Callback, Hang
<1>20. ASSUME NEW h \in Handlers, Oauth1Callback(h) PROVE FetchInv'
  BY <1>20, OnlyConnect DEF Oauth1Callback, Hang
<1>21. ASSUME NEW h \in Handlers, AppCallback(h) PROVE FetchInv'
  BY <1>21, OnlyConnect DEF AppCallback, Refuse
<1>22. ASSUME NEW h \in Handlers, ApiKey(h) \/ Basic(h) \/ Create(h) PROVE FetchInv'
  <2> PICK a \in Auths : h = <<a, "connect">> /\ h[1] = a /\ h[2] = "connect"
    BY <1>22, OnlyConnect DEF ApiKey, Basic, Create, Checks
  <2>3. task' = [task EXCEPT ![h] = task'[h]]
    BY <1>22 DEF ApiKey, Basic, Create, Checks
  <2>4. \A b \in Auths \ {a}, m \in Ids : task'[<<b, m>>] = task[<<b, m>>]
    BY <2>3, OtherTasks
  <2>1. \A b \in Auths \ {a} : Same(b)
    BY ZenonT(60), <1>22, <2>4 DEF ApiKey, Basic, Create, Checks, Same
  <2>5. \A m \in Ids \ {"connect"} : task'[<<a, m>>] = task[<<a, m>>]
    BY <2>3, OtherTasks
  <2>6. <<a, "connect">> \in Handlers
    BY HandlerOf
  <2>2. FetchCall(a)' /\ timers' = timers /\ writing' = writing
    BY <1>22, <2>5, <2>6 DEF ApiKey, Basic, Create, Checks, FetchCall, FetchAlone
  <2> QED
    BY <2>1, <2>2, ByOneFetch
<1>23. ASSUME NEW h \in Handlers, Upsert(h) PROVE FetchInv'
  <2> PICK a \in Auths : h = <<a, "connect">> /\ h[1] = a /\ h[2] = "connect"
    BY <1>23, OnlyConnect DEF Upsert
  <2>3. task' = [task EXCEPT ![h] = task'[h]]
    BY <1>23 DEF Upsert
  <2>4. \A b \in Auths \ {a}, m \in Ids : task'[<<b, m>>] = task[<<b, m>>]
    BY <2>3, OtherTasks
  <2>1. \A b \in Auths \ {a} : Same(b)
    BY <1>23, <2>4 DEF Upsert, Same
  <2>5. \A m \in Ids \ {"connect"} : task'[<<a, m>>] = task[<<a, m>>]
    BY <2>3, OtherTasks
  <2>6. <<a, "connect">> \in Handlers
    BY HandlerOf
  <2>2. FetchCall(a)' /\ timers' = timers /\ writing' = writing
    BY <1>23, <2>5, <2>6 DEF Upsert, FetchCall, FetchAlone
  <2> QED
    BY <2>1, <2>2, ByOneFetch
<1>24. ASSUME NEW h \in Handlers, Initiate(h) PROVE FetchInv'
  <2> PICK a \in Auths : h = <<a, "connect">> /\ h[1] = a /\ h[2] = "connect"
    BY <1>24, OnlyConnect DEF Initiate
  <2>3. task' = [task EXCEPT ![h] = task'[h]]
    BY <1>24 DEF Initiate
  <2>4. \A b \in Auths \ {a}, m \in Ids : task'[<<b, m>>] = task[<<b, m>>]
    BY <2>3, OtherTasks
  <2>1. \A b \in Auths \ {a} : Same(b)
    <3>1. CASE Respond(h, "rejected") /\ Because(h[1], "unfinished")
      BY <1>24, <2>4, <3>1 DEF Initiate, Same
    <3>2. CASE Proceed(h, "initiate", "answer") /\ UNCHANGED reason
      BY <1>24, <2>4, <3>2 DEF Initiate, Same
    <3> QED
      BY <1>24, <3>1, <3>2 DEF Initiate
  <2>5. \A m \in Ids \ {"connect"} : task'[<<a, m>>] = task[<<a, m>>]
    BY <2>3, OtherTasks
  <2>6. <<a, "connect">> \in Handlers
    BY HandlerOf
  <2>2. FetchCall(a)' /\ timers' = timers /\ writing' = writing
    BY <1>24, <2>5, <2>6 DEF Initiate, FetchCall, FetchAlone
  <2> QED
    BY <2>1, <2>2, ByOneFetch
<1>25. ASSUME NEW h \in Handlers, Answer(h) PROVE FetchInv'
  <2> PICK a \in Auths : h = <<a, "connect">> /\ h[1] = a /\ h[2] = "connect"
    BY <1>25, OnlyConnect DEF Answer
  <2>3. task' = [task EXCEPT ![h] = task'[h]]
    BY <1>25 DEF Answer
  <2>4. \A b \in Auths \ {a}, m \in Ids : task'[<<b, m>>] = task[<<b, m>>]
    BY <2>3, OtherTasks
  <2>1. \A b \in Auths \ {a} : Same(b)
    BY <1>25, <2>4 DEF Answer, Same
  <2>5. \A m \in Ids \ {"connect"} : task'[<<a, m>>] = task[<<a, m>>]
    BY <2>3, OtherTasks
  <2>6. <<a, "connect">> \in Handlers
    BY HandlerOf
  <2>2. FetchCall(a)' /\ timers' = timers /\ writing' = writing
    BY <1>25, <2>5, <2>6 DEF Answer, FetchCall, FetchAlone
  <2> QED
    BY <2>1, <2>2, ByOneFetch
<1>26. CASE DeleteConfig
  BY <1>26, SameFetch DEF DeleteConfig, Same, FetchInv
<1>27. CASE Restart
  <2> SUFFICES ASSUME NEW a \in Auths PROVE FetchCall(a)'
    BY <1>27 DEF Restart, FetchInv
  <2>1. \A n \in Ids : <<a, n>> \in Handlers /\ <<a, n>>[1] = a
    BY HandlerOf
  <2>2. \A n \in Ids : \/ task'[<<a, n>>] = task[<<a, n>>]
                       \/ task'[<<a, n>>] = "done" /\ task[<<a, n>>] # "idle"
    <3>1. \A h \in Handlers : task'[h] = IF h \in Running THEN "done" ELSE task[h]
      BY <1>27 DEF Restart
    <3> TAKE n \in Ids
    <3>2. <<a, n>> \in Handlers
      BY <2>1
    <3>3. task'[<<a, n>>] = IF <<a, n>> \in Running THEN "done" ELSE task[<<a, n>>]
      BY <3>1, <3>2
    <3>4. <<a, n>> \in Running => task[<<a, n>>] # "idle"
      BY DEF Running
    <3> QED
      BY <3>3, <3>4
  <2>3. ASSUME reason'[a] = "none"
        PROVE  reason[a] = "none" /\ \A n \in Ids : task'[<<a, n>>] = task[<<a, n>>]
    <3>1. a \notin {h[1] : h \in Running} /\ reason[a] = "none"
      BY <1>27, <2>3 DEF Restart
    <3> QED
      BY <1>27, <2>1, <3>1 DEF Restart, Running
  <2> QED
    BY <1>27, <2>1, <2>2, <2>3 DEF Restart, FetchCall, FetchAlone
<1>28. CASE UNCHANGED vars
  BY <1>28, SameFetch DEF vars, Same, FetchInv
<1> QED
  BY <1>1, <1>2, <1>3, <1>4, <1>5, <1>6, <1>7, <1>8, <1>9, <1>10, <1>11, <1>12, <1>13, <1>14,
     <1>15, <1>16, <1>17, <1>18, <1>19, <1>20, <1>21, <1>22, <1>23, <1>24, <1>25, <1>26,
     <1>27, <1>28 DEF Next, Page, User, Server

LEMMA ModeIsFixed == [Next]_vars => mode' = mode
<1> SUFFICES ASSUME [Next]_vars PROVE mode' = mode
  OBVIOUS
<1>1. ASSUME NEW a \in Auths, Page(a) \/ User(a) \/ AddClient(a) \/ Written(a) PROVE mode' = mode
  BY <1>1 DEF Page, User, FetchFails, OpenModal, SuccessHandler, ErrorHandler, Handle, Poll,
     Auth,
     ApiAuth, Closes, CallsBack, Reloads, Callback, AddClient, Written
<1>2. ASSUME NEW h \in Handlers, Server(h) PROVE mode' = mode
  BY <1>2 DEF Server, OauthRequest, Oauth2Request, AppRequest, Oauth1Request, Redirect,
     OauthCallback, Connect, DeleteSession, Oauth2Callback, Oauth1Callback, AppCallback, ApiKey,
     Basic, Create, Checks, Upsert, Initiate, Answer
<1> QED
  BY <1>1, <1>2 DEF Next, DeleteConfig, Restart, vars

LEMMA InitReasons == Init => PopupInv /\ FetchInv
<1> SUFFICES ASSUME Init PROVE PopupInv /\ FetchInv
  OBVIOUS
<1>1. \A a \in Auths, n \in Ids : task[<<a, n>>] = "idle"
  BY HandlerOf DEF Init
<1>2. PopupInv
  BY ZenonT(60), <1>1 DEF Init, PopupInv, CallInv, InOrder, SessionTaken, Alone, Untouched,
     Late, Ids
<1>3. FetchInv
  BY <1>1 DEF Init, FetchInv, FetchCall, FetchAlone, Ids
<1> QED
  BY <1>2, <1>3

\* index.ts rejects with windowClosed "before the authorization flow was completed", and
\* otherwise when the server reports an error.  A call that is rejected although its
\* connection is written has been met by one of these: its popup was closed, another
\* call was busy or had the popup that was closed, the server restarted or could not
\* finish after the row, the callback was reloaded, or the success came too late or when
\* the page no longer minded.  Of a call rejected without a connection nothing is said.
THEOREM RejectionsHaveReasons == Spec => []RejectedHasReason
<1> DEFINE Inv == FlowInv /\ PopupInv /\ FetchInv
<1>1. Init => Inv
  BY InitFlowInv, InitReasons
<1>2. Inv /\ [Next]_vars => Inv'
  <2>1. FlowInv /\ [Next]_vars => FlowInv'
    BY NextTypes, NextCalled, NextRowFirst, NextToldLast DEF FlowInv
  <2>2. PopupInv /\ FlowInv /\ [Next]_vars => PopupInv'
    BY NextPopupInv, ModeIsFixed DEF PopupInv
  <2>3. FetchInv /\ FlowInv /\ [Next]_vars => FetchInv'
    BY NextFetchInv, ModeIsFixed DEF FetchInv
  <2> QED
    BY <2>1, <2>2, <2>3
<1>3. Inv => RejectedHasReason
  BY DEF PopupInv, CallInv, Alone, Over, Never, Untouched, FetchInv, FetchCall, FetchAlone,
         RejectedHasReason
<1> QED
  BY <1>1, <1>2, <1>3, PTL DEF Spec
==============================================================================
