--------------------------- MODULE MCSubscriptions ---------------------------
(* Finite instances of Subscriptions for TLC: a first period t1 that is bought, *)
(* refunded and restored, a second period t2, a hay pack p1.                    *)
EXTENDS Subscriptions, TLC

CONSTANTS buy, refund, reverse, again, renew, cancel, expire, billing, change,
          pack, packRefund, packReverse, t1, t2, p1

MCEvents == {buy, refund, reverse, again, renew, cancel, expire, billing, change,
             pack, packRefund, packReverse}
MCKindOf ==
    (buy :> "purchase") @@ (refund :> "refund") @@ (reverse :> "reverse")
    @@ (again :> "refund") @@ (renew :> "purchase") @@ (cancel :> "unsubscribe")
    @@ (expire :> "expire") @@ (billing :> "billing") @@ (change :> "product")
    @@ (pack :> "pack") @@ (packRefund :> "refund") @@ (packReverse :> "reverse")
MCTxOf ==
    [e \in MCEvents |-> IF e \in {pack, packRefund, packReverse} THEN p1
                        ELSE IF e \in {renew, expire} THEN t2 ELSE t1]
MCStampOf ==
    (buy :> 1) @@ (refund :> 3) @@ (reverse :> 4) @@ (again :> 5) @@ (renew :> 2)
    @@ (cancel :> 3) @@ (expire :> 6) @@ (billing :> 3) @@ (change :> 4)
    @@ (pack :> 1) @@ (packRefund :> 2) @@ (packReverse :> 3)
MCEndOf ==
    [e \in MCEvents |-> CASE e \in {renew, expire} -> 2 [] e = billing -> 3 [] OTHER -> 1]

Sends(sent, n, k, f) == [sends |-> sent, changes |-> n, key |-> k, faults |-> f]
MCStores ==
    { Sends({buy, refund, reverse}, 0, TRUE, 0), Sends({buy, reverse, again}, 0, FALSE, 0),
      Sends({buy, refund}, 0, TRUE, 1), Sends({buy, renew}, 0, TRUE, 0),
      Sends({buy, change}, 1, TRUE, 0), Sends({buy, cancel}, 1, TRUE, 1),
      Sends({buy, renew, refund}, 0, FALSE, 1), Sends({buy, renew, cancel}, 0, FALSE, 0),
      Sends({buy, expire, billing}, 0, FALSE, 0),
      Sends({buy, change, renew}, 0, FALSE, 0),
      Sends({buy, pack, packRefund}, 0, TRUE, 0),
      Sends({pack, packRefund, packReverse}, 0, TRUE, 0) }
Symmetry == Permutations(Workers)

MCProviderStates ==
    << [status |-> "active", end |-> 1, latest |-> t1, renew |-> TRUE],
       [status |-> "expired", end |-> 1, latest |-> t1, renew |-> FALSE] >>
=============================================================================
