SPECIFICATION TableSpec
CONSTANTS
    Rank <- FourRows
    Searched = {1, 3, 4}
    Filtered = {2, 3, 4}
    Visible = {2, 3}
    Limits = {1, 2}
INVARIANTS ShownAsOffered NotStranded TurnStays
