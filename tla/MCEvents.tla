----------------------------- MODULE MCEvents -----------------------------
(***************************************************************************)
(* Small instances, for safety, of components that keep event records.     *)
(* No action of one reads or writes a variable of another, so a behaviour  *)
(* runs the component it has in focus; the others stay where they start.   *)
(***************************************************************************)
EXTENDS EventApi, EventNumber, NvrExport, TLC

CONSTANTS
  Focus,   \* the components this run looks at
  o1, o2,  \* operators, their requests, or processes
  p1, p2,  \* speakers
  Null

VARIABLES
  focus,  \* the component that runs in this behaviour
  \* EventImport
  emitted, status, job, closed, link, inbox, range, batch, taken, cursor,
  asked, polled, held, snapshot, local, rec

pageVars ==
  <<emitted, status, job, closed, link, inbox, range, batch, taken, cursor,
    asked, polled, held, snapshot, local, rec>>

(* The event list of a host, read a page at a time.                        *)
Pages == INSTANCE EventImport WITH
  Events <- {1, 2, 3}, Slack <- 1, FirstWindow <- 3, Page <- 1, Window <- 1,
  Operators <- {}, Environment <- {"late", "db_error"}

(* The one overwritten row hides this event.                               *)
HiddenEvent == [e \in Overwritten |-> 3]

EventsInit ==
  /\ focus \in Focus
  /\ NumberInit
  /\ Init
  /\ ExportInit
  /\ Pages!Init
  (* One start is enough where a component is not in focus.                *)
  /\ focus # "recordings" => nvrMode = "nvr"
  /\ focus # "numbers" => counter[1] = 1

EventsNext ==
  /\ UNCHANGED focus
  /\ IF focus = "numbers" THEN NumberNext ELSE UNCHANGED numberVars
  /\ IF focus = "requests" THEN Next ELSE UNCHANGED apiVars
  /\ IF focus = "recordings" THEN ExportNext ELSE UNCHANGED nvrVars
  /\ IF focus = "pages" THEN Pages!Next ELSE UNCHANGED pageVars

vars ==
  <<focus, numberVars, apiVars, nvrVars, pageVars>>

EventsSpec == EventsInit /\ [][EventsNext]_vars

(* The two operators and the two speakers are interchangeable.             *)
Symmetric == Permutations({o1, o2}) \union Permutations({p1, p2})

-----------------------------------------------------------------------------
(* The component in focus keeps the type of its variables.                 *)
EventsTypeOK ==
  /\ focus = "numbers" => NumberTypeOK
  /\ focus = "requests" => TypeOK
  /\ focus = "recordings" => ExportTypeOK

(* Stated and explained in EventImport: here new and late events come      *)
(* while the pages are read, and move every older one to a later offset.   *)
PagesAreComplete == focus = "pages" => Pages!CaughtUpIsComplete

=============================================================================
