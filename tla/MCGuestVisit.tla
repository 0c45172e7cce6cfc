---------------------------- MODULE MCGuestVisit ----------------------------
\* Guests are the taps on Start, in order; the .cfg files say how many, and how
\* many retries, late calls and faults they meet.
EXTENDS GuestVisit

MCGuests == 1..MaxGuests

=============================================================================
