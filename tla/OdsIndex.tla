------------------------------ MODULE OdsIndex -------------------------------
(***************************************************************************)
(* The arithmetic between the two squares of a Celestia block.  A block's   *)
(* original data square (ODS) has some width w; the extended square (EDS)   *)
(* the header commits to is twice as wide and twice as high.  A DA node     *)
(* numbers a blob's first share row by row in the EDS, and is asked for     *)
(* share ranges numbered row by row in the ODS.                             *)
(*                                                                         *)
(* The service and the blob tool compute the same index with the same code. *)
(***************************************************************************)
EXTENDS Naturals

\* How many row roots a header has, and what the code calls ods_size.
EdsSize(width)   == 2 * width
OdsSize(edsSize) == edsSize \div 2

\* first_row_index: the row of the EDS that the index falls into.
FirstRow(index, edsSize) == index \div edsSize

\* ods_index: every row before it held ods_size shares of parity data.
OdsIndexOf(index, edsSize) ==
  index - FirstRow(index, edsSize) * OdsSize(edsSize)

-----------------------------------------------------------------------------
(***************************************************************************)
(* Reference definition, by row and column.                                 *)
(***************************************************************************)

EdsPosition(row, column, width) == row * EdsSize(width) + column
OdsPosition(row, column, width) == row * width + column
=============================================================================
