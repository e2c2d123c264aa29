-------------------------- MODULE MC_BrowserSession -------------------------
(* Two tabs of one browser, two users and a session of each: one tab with   *)
(* two calls at a time, the other with one.  The browser may start with     *)
(* either session; logins bring the second user's.                          *)
EXTENDS BrowserSession

CONSTANTS t1, t2, f1, f2, f3, sA, sB, uA, uB

MCTab     == {t1, t2}
MCFlow    == {f1, f2, f3}
MCHome    == [f \in {f1, f2, f3} |-> IF f = f3 THEN t2 ELSE t1]
MCSession == {sA, sB}
MCUser    == {uA, uB}
MCOffers  == [f \in {f1, f2, f3} |->
                CASE f = f1 -> {"call", "check"}
                  [] f = f2 -> {"once"}
                  [] f = f3 -> {"login", "logout"}]
MCLogins  == {sB}
MCOwner   == [s \in {sA, sB} |-> IF s = sA THEN uA ELSE uB]

(* One tab with two calls at a time, and one user.                          *)
MCOneTab     == {t1}
MCTwoFlows   == {f1, f2}
MCAtOneTab   == [f \in MCTwoFlows |-> t1]
MCOneSession == {sA}
MCOneUser    == {uA}
MCCalls      == [f \in MCTwoFlows |-> {"call"}]
MCSameOwner  == [s \in MCOneSession |-> uA]
=============================================================================
