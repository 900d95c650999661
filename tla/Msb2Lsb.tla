------------------------------ MODULE Msb2Lsb ------------------------------
(***************************************************************************)
(* The table msb2lsb of memlcd_spi.c, which MemLcd.c has again: the SPI    *)
(* hosts send the most significant bit of a byte first and the panel wants *)
(* the least significant one, so that every byte sent, the line numbers    *)
(* among them, goes through the table.  A constant module: TLC evaluates   *)
(* its assumption in the runs of MCMemLcdSpi, which extends it.            *)
(***************************************************************************)
EXTENDS Naturals

Table == <<
  \h00, \h80, \h40, \hC0, \h20, \hA0, \h60, \hE0, \h10, \h90, \h50, \hD0, \h30, \hB0, \h70, \hF0,
  \h08, \h88, \h48, \hC8, \h28, \hA8, \h68, \hE8, \h18, \h98, \h58, \hD8, \h38, \hB8, \h78, \hF8,
  \h04, \h84, \h44, \hC4, \h24, \hA4, \h64, \hE4, \h14, \h94, \h54, \hD4, \h34, \hB4, \h74, \hF4,
  \h0C, \h8C, \h4C, \hCC, \h2C, \hAC, \h6C, \hEC, \h1C, \h9C, \h5C, \hDC, \h3C, \hBC, \h7C, \hFC,
  \h02, \h82, \h42, \hC2, \h22, \hA2, \h62, \hE2, \h12, \h92, \h52, \hD2, \h32, \hB2, \h72, \hF2,
  \h0A, \h8A, \h4A, \hCA, \h2A, \hAA, \h6A, \hEA, \h1A, \h9A, \h5A, \hDA, \h3A, \hBA, \h7A, \hFA,
  \h06, \h86, \h46, \hC6, \h26, \hA6, \h66, \hE6, \h16, \h96, \h56, \hD6, \h36, \hB6, \h76, \hF6,
  \h0E, \h8E, \h4E, \hCE, \h2E, \hAE, \h6E, \hEE, \h1E, \h9E, \h5E, \hDE, \h3E, \hBE, \h7E, \hFE,
  \h01, \h81, \h41, \hC1, \h21, \hA1, \h61, \hE1, \h11, \h91, \h51, \hD1, \h31, \hB1, \h71, \hF1,
  \h09, \h89, \h49, \hC9, \h29, \hA9, \h69, \hE9, \h19, \h99, \h59, \hD9, \h39, \hB9, \h79, \hF9,
  \h05, \h85, \h45, \hC5, \h25, \hA5, \h65, \hE5, \h15, \h95, \h55, \hD5, \h35, \hB5, \h75, \hF5,
  \h0D, \h8D, \h4D, \hCD, \h2D, \hAD, \h6D, \hED, \h1D, \h9D, \h5D, \hDD, \h3D, \hBD, \h7D, \hFD,
  \h03, \h83, \h43, \hC3, \h23, \hA3, \h63, \hE3, \h13, \h93, \h53, \hD3, \h33, \hB3, \h73, \hF3,
  \h0B, \h8B, \h4B, \hCB, \h2B, \hAB, \h6B, \hEB, \h1B, \h9B, \h5B, \hDB, \h3B, \hBB, \h7B, \hFB,
  \h07, \h87, \h47, \hC7, \h27, \hA7, \h67, \hE7, \h17, \h97, \h57, \hD7, \h37, \hB7, \h77, \hF7,
  \h0F, \h8F, \h4F, \hCF, \h2F, \hAF, \h6F, \hEF, \h1F, \h9F, \h5F, \hDF, \h3F, \hBF, \h7F, \hFF >>

(* A C table, indexed from 0.                                              *)
Msb2LsbOf(b) == Table[b + 1]

(* Bit k of a byte, bit 0 being the least significant one.                 *)
BitOf(b, k) == (b \div 2^k) % 2

(* The panel gets every byte with its bits in reverse order: none of the   *)
(* 256 entries is wrong or out of place.                                   *)
ASSUME BitsReversed ==
  \A b \in 0 .. 255, k \in 0 .. 7 : BitOf(Msb2LsbOf(b), k) = BitOf(b, 7 - k)
=============================================================================
