---------------------------- MODULE MCLiveConfig ----------------------------
EXTENDS LiveConfig

\* One configuration per buffer mode; the Free one pins the rate.
MCConfigs ==
    {[mode |-> "fixed", size |-> 1, rate |-> 0],
     [mode |-> "wireless", size |-> 1, rate |-> 0],
     [mode |-> "free", size |-> 2, rate |-> 48]}
=============================================================================
