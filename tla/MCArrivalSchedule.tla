-------------------------- MODULE MCArrivalSchedule --------------------------
(* ArrivalSchedule on a small instance.                                    *)
EXTENDS ArrivalSchedule

TickZero == {[level |-> 0, tick |-> 0, bursts |-> TRUE]}

=============================================================================
