SPECIFICATION MessageSpec
CONSTANT Messages <- MCMessages
         Names <- MCNames
         Calls <- MCCalls
         Marshal <- Marshalled
         Unmarshal <- Unmarshalled
INVARIANTS RoundTrip OwnAccepted FitsFrame ChargeCovers Affordable NameFits
