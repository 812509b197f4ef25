CONSTANTS
    DICT_HT_INITIAL_SIZE = 1
    Kind = {"get", "monitor"}
    Subscription <- MCSubscription
    MaxCmd = 3
    MaxDisturb = 1
SPECIFICATION Spec
INVARIANT FreedUnderNobody
INVARIANT RightCallback
INVARIANT EveryCallbackRun
INVARIANT AssertionsHold
INVARIANT SubscriptionsExact
PROPERTY DisconnectEnds
CHECK_DEADLOCK FALSE
