---------------------------- MODULE MCConfigFile ----------------------------
EXTENDS ConfigFile

\* What an editor leaves: a text of today, and one of an old version that knows
\* only the booleans, with a size out of range.
MCEditions == {apply_mode([size |-> 512, mode |-> Wireless, device |-> "usb"]),
               [apply_mode([size |-> 100, mode |-> Unset, device |-> FollowDefault])
                   EXCEPT !.follow = TRUE]}
=============================================================================
