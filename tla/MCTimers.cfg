SPECIFICATION TimersSpec
CONSTANTS
  Nodes = {t1, t2, t3}
  Null = Null
  Intervals = {1, 3}
  IntMax = 2
  MaxLag = 2
  MaxHeap = 6
INVARIANTS TypeOK TreeIsHeap StartedHaveCallbacks PollEndsInTime HeapAlgorithmsAreRight
PROPERTIES TimersFireInOrder ActiveTimersFire
