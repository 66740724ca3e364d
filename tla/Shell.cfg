CONSTANTS
  Used = {1, 2, 3, 4, 5, 6, 7, 8, 9, 10, 11, 12, 13}
SPECIFICATION Spec
INVARIANTS NestingBounded AutorunScoped RefreshesDisplayed
PROPERTIES FetchesWhatIsAsked
