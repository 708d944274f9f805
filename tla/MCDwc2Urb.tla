----------------------------- MODULE MCDwc2Urb -----------------------------
(* Constants for the model-checking runs of Dwc2Urb.  The channels are *)
(* alike: dwc2_chan_alloc may return any free one.                      *)
EXTENDS Dwc2Urb, TLC
CONSTANTS ctl, bulk, c1, c2
MCUrb == {ctl, bulk}
MCChan == {c1, c2}
MCSymmetry == Permutations(MCChan)
=============================================================================
