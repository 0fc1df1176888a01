-------------------------------- MODULE XLR ---------------------------------
(***************************************************************************)
(* The subscriber database (VLR and HLR).  Every member function of XLR    *)
(* holds its mutex for one SQL statement, so each is one atomic step of    *)
(* the thread that calls it.                                               *)
(***************************************************************************)
EXTENDS Epc

CONSTANTS
  BootTmsi,   \* the tmsi column the previous run of the server left
  BootIssued  \* the last TMSI drawn by then
ASSUME BootAssumption ==
  /\ BootTmsi \in [Registered -> Tmsis]
  /\ BootIssued \in Tmsis
  /\ \A s \in Registered : BootTmsi[s] <= BootIssued

VARIABLE subscribers \* the table: subscribers[s] = [tmsi, enodeb_id]

Row == [tmsi: Tmsis, enodeb_id: ENodes \cup {None}]

\* XLR::XLR unbinds every row from its station and keeps its TMSI.
InitXLR == subscribers = [s \in Registered |-> [tmsi |-> BootTmsi[s], enodeb_id |-> None]]

\* Mutant: the query lost its where clause.
FindByTmsi_All(t) == Registered

FindByTmsi(t) == {s \in Registered : subscribers[s].tmsi = t}

Online(s) == subscribers[s].enodeb_id # None

UpdateTmsi(s, t) == subscribers' = [subscribers EXCEPT ![s].tmsi = t]

UpdateEnodeB(t, n) ==
  subscribers' = [s \in Registered |->
                    IF s \in FindByTmsi(t) THEN [subscribers[s] EXCEPT !.enodeb_id = n]
                                           ELSE subscribers[s]]

\* Mutant: 0 and not -1 for "no station".
ClearTmsi_Zero(t) ==
  subscribers' = [s \in Registered |->
                    IF s \in FindByTmsi(t) THEN [tmsi |-> NoTmsi, enodeb_id |-> 0]
                                           ELSE subscribers[s]]

\* Mutant: the row keeps its station when the TMSI is cleared.
ClearTmsi_KeepsStation(t) ==
  subscribers' = [s \in Registered |->
                    IF s \in FindByTmsi(t) THEN [subscribers[s] EXCEPT !.tmsi = NoTmsi]
                                           ELSE subscribers[s]]

ClearTmsi(t) ==
  subscribers' = [s \in Registered |->
                    IF s \in FindByTmsi(t) THEN [tmsi |-> NoTmsi, enodeb_id |-> None]
                                           ELSE subscribers[s]]
=============================================================================
