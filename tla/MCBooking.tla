------------------------------ MODULE MCBooking ------------------------------
EXTENDS Booking, TLC
(* Two requests are alike until they choose what they are.                    *)
RequestSymmetry == Permutations(Requests)
(* Bound of the run: Calendly is not combined with form bookings and faults.   *)
CalendlyAlone == (\A u \in Uuids : invitee[u] = "none") \/ (faults = 0 /\ \A f \in Forms : row[f] = NoRow)
=============================================================================
