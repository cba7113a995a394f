------------------------------ MODULE OrderMaps ------------------------------
(***************************************************************************)
(* protocol/json/map.cpp: the enumerations of orders, as the exchange      *)
(* writes them and as the OMS has them.  A text outside an enumeration is  *)
(* UNKNOWN_INTERNAL when it is decoded; UNDEFINED_INTERNAL is written as   *)
(* an empty text.                                                          *)
(***************************************************************************)
EXTENDS Integers

NoText == ""

(* What the OMS may ask for *)
Sides == {"BUY", "SELL"}
OrderTypes == {"MARKET", "LIMIT"}
TimesInForce ==
    {"UNDEFINED", "GFD", "GTC", "OPG", "IOC", "FOK", "GTX", "GTD", "AT_THE_CLOSE",
     "GOOD_THROUGH_CROSSING", "AT_CROSSING", "GOOD_FOR_TIME", "GFA", "GFM"}

(* What the exchange may write *)
SideTexts == {"buy", "sell", "BUY", "SELL"}
TimeInForceTexts == {"GTC", "IOC", "FOK", "GTT", "RTI"}
StatusCodes == 0..6

-----------------------------------------------------------------------------
(* To the exchange                                                          *)

SideText(side) == IF side \in Sides THEN side ELSE NoText

OrderTypeText(orderType) == IF orderType \in OrderTypes THEN orderType ELSE NoText

(* mutant: IOC is forgotten *)
TimeInForceTextNoIOC(timeInForce) ==
    IF timeInForce \in {"GTC", "FOK"} THEN timeInForce ELSE NoText

TimeInForceText(timeInForce) ==
    IF timeInForce \in {"GTC", "IOC", "FOK"} THEN timeInForce ELSE NoText

-----------------------------------------------------------------------------
(* From the exchange                                                        *)

(* mutant: only one spelling is known *)
MapSideLower(text) ==
    CASE text = "buy" -> "BUY"
      [] text = "sell" -> "SELL"
      [] OTHER -> "UNDEFINED"

MapSide(text) ==
    CASE text \in {"buy", "BUY"} -> "BUY"
      [] text \in {"sell", "SELL"} -> "SELL"
      [] OTHER -> "UNDEFINED"

MapOrderType(text) == IF text \in OrderTypes THEN text ELSE "UNDEFINED"

MapTimeInForce(text) == IF text \in {"GTC", "IOC", "FOK"} THEN text ELSE "UNDEFINED"

(* open orders carry a number *)
MapStatus(code) ==
    CASE code = 0 -> "SUSPENDED"        \* not triggered
      [] code = 1 -> "ACCEPTED"         \* triggered
      [] code \in {2, 4} -> "WORKING"   \* live, partially filled
      [] code = 3 -> "COMPLETED"        \* filled
      [] code \in {5, 6} -> "CANCELED"  \* canceled, partially canceled
=============================================================================
