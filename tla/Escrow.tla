-------------------------------- MODULE Escrow --------------------------------
(***************************************************************************)
(* What a brand and a member may expect of campaign money, without         *)
(* handlers, transactions or stale reads: every operation happens at once  *)
(* and on the current state.  A campaign is funded with an amount that its *)
(* brand's wallet holds, a pending submission is either paid for, with a   *)
(* reward that its campaign holds, or rejected, and that once.  Amounts    *)
(* may have any sign.  Settlement implements this while requests that      *)
(* concern the same thing do not overlap.                                  *)
(***************************************************************************)
EXTENDS Integers

CONSTANTS Brands, Members, Campaigns, SubTasks, Owner, CampaignOf, InitialBalance,
          TopUps, ToppedUp(_, _)

VARIABLES wallet, live, funds, reward, tracker, paid

vars == <<wallet, live, funds, reward, tracker, paid>>

Claims == SubTasks \X Members

Init ==
    /\ wallet = InitialBalance
    /\ live = {}
    /\ funds = [c \in Campaigns |-> 0]
    /\ reward = [t \in SubTasks |-> 0]
    /\ tracker = [k \in Claims |-> "none"]
    /\ paid = [k \in Claims |-> 0]

\* Fund a new campaign with no more than its owner's wallet has.
Launch(c) ==
    /\ c \notin live
    /\ funds'[c] <= wallet[Owner[c]]
    /\ live' = live \cup {c}
    /\ wallet' = [wallet EXCEPT ![Owner[c]] = @ - funds'[c]]
    /\ funds' = [funds EXCEPT ![c] = funds'[c]]
    /\ reward' = [t \in SubTasks |->
                    IF CampaignOf[t] = c THEN reward'[t] ELSE reward[t]]
    /\ UNCHANGED <<tracker, paid>>

\* Change a campaign by what its present amount and the request make; where the
\* money comes from is left open.
TopUp(c) ==
    /\ c \in live
    /\ \E topUp \in TopUps : funds' = [funds EXCEPT ![c] = ToppedUp(topUp, funds[c])]
    /\ UNCHANGED <<wallet, live, reward, tracker, paid>>

Start(k) ==
    /\ CampaignOf[k[1]] \in live
    /\ tracker[k] = "none"
    /\ tracker' = [tracker EXCEPT ![k] = "started"]
    /\ UNCHANGED <<wallet, live, funds, reward, paid>>

Submit(k) ==
    /\ tracker[k] = "started"
    /\ tracker' = [tracker EXCEPT ![k] = "pending"]
    /\ UNCHANGED <<wallet, live, funds, reward, paid>>

Pay(k) ==
    LET t == k[1]
        c == CampaignOf[t]
    IN /\ tracker[k] = "pending"
       /\ paid[k] = 0
       /\ reward[t] <= funds[c]
       /\ funds' = [funds EXCEPT ![c] = @ - reward[t]]
       /\ wallet' = [wallet EXCEPT ![k[2]] = @ + reward[t]]
       /\ tracker' = [tracker EXCEPT ![k] = "approved"]
       /\ paid' = [paid EXCEPT ![k] = 1]
       /\ UNCHANGED <<live, reward>>

Reject(k) ==
    /\ tracker[k] = "pending"
    /\ tracker' = [tracker EXCEPT ![k] = "rejected"]
    /\ UNCHANGED <<wallet, live, funds, reward, paid>>

Next ==
    \/ \E c \in Campaigns : Launch(c) \/ TopUp(c)
    \/ \E k \in Claims : Start(k) \/ Submit(k) \/ Pay(k) \/ Reject(k)

Spec == Init /\ [][Next]_vars

===============================================================================
