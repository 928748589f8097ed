CONSTANTS
    buy = buy
    refund = refund
    reverse = reverse
    again = again
    renew = renew
    cancel = cancel
    expire = expire
    billing = billing
    change = change
    pack = pack
    packRefund = packRefund
    packReverse = packReverse
    t1 = t1
    t2 = t2
    p1 = p1
    Workers = {w1, w2}
    NoRow = NoRow
    Events <- MCEvents
    KindOf <- MCKindOf
    TxOf <- MCTxOf
    StampOf <- MCStampOf
    EndOf <- MCEndOf
    FirstTx = t1
    Stores <- MCStores
    ProviderStates <- MCProviderStates
    MaxAttempts = 2
    StageTries = 2
SYMMETRY Symmetry
SPECIFICATION InboxSpec
INVARIANTS BooksFollowPayments MoneyFollowsNewest
PROPERTIES AccessForward RefundStaysClosed
CHECK_DEADLOCK FALSE
