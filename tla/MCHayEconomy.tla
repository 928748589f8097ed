---------------------------- MODULE MCHayEconomy ----------------------------
(* Finite instances of HayEconomy and Trainings for TLC.                                     *)
EXTENDS Trainings, TLC

CONSTANTS plain, lent, s1, s2

Call(n, kind)     == [n |-> n, kind |-> kind]
Ssv(n, s, tx)     == [n |-> n, kind |-> "ssv", session |-> s, tx |-> tx]
Buy(n, key)       == [n |-> n, kind |-> "purchase", product |-> plain, key |-> key]
Equip(n, p)       == [n |-> n, kind |-> "equip", product |-> p]
Pick(n, id, s)    == [n |-> n, kind |-> "pick", id |-> id, stage |-> s]
Write(n, id, s)   == [n |-> n, kind |-> "write", id |-> id, stage |-> s]
Read(n)           == [n |-> n, kind |-> "article", article |-> "a"]

MCScripts ==
    { {Call(1, "claim_attendance"), Call(2, "check_in"), Call(3, "routine_reward")},
      {Call(1, "check_in"), Call(2, "check_in"), Call(3, "claim_attendance")},
      {Call(1, "mood_reward"), Call(2, "routine_reward"), Call(3, "mood_reward")},
      {Call(1, "ad_session"), Call(2, "ad_session"), Ssv(3, s1, "x"), Ssv(4, s2, "y"),
       Ssv(5, s1, "x")},
      {Call(1, "ad_session"), Call(2, "ad_session"), Ssv(3, s1, "x"), Ssv(4, s2, "x")},
      {Call(1, "ad_session"), Ssv(2, s1, "x"), Call(3, "mood_reward")},
      {Buy(1, None), Buy(2, "k"), Buy(3, "k"), Buy(4, None), Read(5)},
      {Buy(1, None), Equip(2, plain), Equip(3, lent), Equip(4, None), Read(5), Read(6)},
      {Write(1, "a", 1), Write(2, "a", 1), Write(3, "b", 1), Write(4, "c", 1),
       Pick(5, "d", 2)},
      {Write(1, "a", 1), Pick(2, "b", 2), Pick(3, "c", 2), Pick(4, "d", 2)} }
MCLost == { {Call(1, "routine_reward"), Call(2, "mood_reward")} }
=============================================================================
